---- MODULE Spec2Model ----
(***************************************************************************)
(* Cal_Sync: the change-detection and reconciliation engine of             *)
(* src/cal_sync.py (class CalSync) against the destination calendar of     *)
(* src/icloud_integration.py (class ICloudIntegration).                    *)
(*                                                                         *)
(* A state holds the aggregated source event set, the sync state ledger,   *)
(* the content of the destination calendar, the configuration, the method  *)
(* set of the connected destination client, and a record of what the last  *)
(* handler (sync_calendars or force_resync) did.  Every handler is one     *)
(* action; the results of the destination calls it makes are its inputs.   *)
(*                                                                         *)
(* Abstractions: timestamps (last_sync) are not modelled; md5 is modelled  *)
(* as an injective encoding of the hashed fields; an event's hashed        *)
(* content other than key and summary is one value `body`.                 *)
(***************************************************************************)
EXTENDS Integers, Sequences, FiniteSets, TLC

VARIABLES source, sync_state, dest, config, client, pc, last

vars == <<source, sync_state, dest, config, client, pc, last>>

-----------------------------------------------------------------------------
(* Bounds and input universes *)

\* most events the destination calendar holds
MaxDest == 3

\* most destination operations that fail (or time out) in one handler run
MaxFailures == 1

\* stable keys: a master and one expanded instance of it
Keys == {"u1", "u1#r1"}

\* the order in which a list of events is walked
KeyOrder == <<"u1", "u1#r1">>

\* the uid part of a stable key (uid, or uid#recurrence-id)
UidOf(k) == IF k = "u1#r1" THEN "u1" ELSE k

NoMarker == "none"

\* hash_fields joined and digested; the digest is injective on the fields
generate_event_hash(stable_key, summary, body) == <<stable_key, summary, body>>

\* an event dict as parse_ical_event builds it
Event(k, s, b) ==
    [stable_key |-> k, uid |-> UidOf(k), summary |-> s, body |-> b,
     hash |-> generate_event_hash(k, s, b)]

\* the source events that can exist: the master with two contents, the
\* instance with a title that contains the master's, and untitled
Universe ==
    { Event("u1", "a", 0), Event("u1", "a", 1),
      Event("u1#r1", "ab", 0), Event("u1#r1", "", 0) }

\* aggregated event sets: get_source_events keeps one event per stable key
SourceSets ==
    { S \in SUBSET Universe :
        \A e1 \in S, e2 \in S : e1.stable_key = e2.stable_key => e1 = e2 }

\* what a destination event shows: its marker and its title
DestTypes ==
    { [marker |-> e.stable_key, summary |-> e.summary] : e \in Universe }
    \cup { [marker |-> NoMarker, summary |-> "a"] }

\* configurations: the defaults, and one with a lower threshold and no valve,
\* and one with manual-deletion detection switched off
Configs ==
    { [verify_threshold |-> 90, override_icloud_deletions |-> TRUE,
       skip_sync_on_too_many_missing |-> TRUE],
      [verify_threshold |-> 50, override_icloud_deletions |-> TRUE,
       skip_sync_on_too_many_missing |-> FALSE],
      [verify_threshold |-> 90, override_icloud_deletions |-> FALSE,
       skip_sync_on_too_many_missing |-> TRUE] }

\* the methods sync_to_icloud requires of the destination client
required_methods ==
    {"create_event", "delete_event_by_summary", "delete_event_by_sync_uid",
     "get_existing_events"}

\* the methods class ICloudIntegration defines
ICloudIntegrationMethods ==
    {"create_calendar", "check_calendar_accessibility", "create_event",
     "update_event", "delete_event", "delete_event_by_summary",
     "get_existing_events", "clear_all_events", "sync_events"}

\* a destination that meets the capability contract of the specification
ContractMethods == ICloudIntegrationMethods \cup {"delete_event_by_sync_uid"}

\* outcomes of get_existing_events
ListOutcomes == {"ok", "error", "timeout", "inaccessible"}

\* outcomes of connect_caldav / connect_icloud
ConnOutcomes == {"ok", "caldav_failed", "icloud_failed"}

-----------------------------------------------------------------------------
(* Helpers on sets, sequences and the destination content *)

\* the title overlap verification needs, in tenths
TitleRatioTenths == 7

Max(a, b) == IF a >= b THEN a ELSE b

KeysOf(events) == { e.stable_key : e \in events }

\* positions of KeyOrder whose key is in K, as the list of those keys
RECURSIVE OrderFrom(_, _)
OrderFrom(i, K) ==
    IF i > Len(KeyOrder) THEN << >>
    ELSE IF KeyOrder[i] \in K THEN <<KeyOrder[i]>> \o OrderFrom(i + 1, K)
    ELSE OrderFrom(i + 1, K)

KeyList(K) == OrderFrom(1, K)

EventOf(events, k) == CHOOSE e \in events : e.stable_key = k

RECURSIVE SumCounts(_, _)
SumCounts(d, T) ==
    IF T = {} THEN 0
    ELSE LET t == CHOOSE x \in T : TRUE IN d[t] + SumCounts(d, T \ {t})

DestSize(d) == SumCounts(d, DestTypes)

EmptyDest == [t \in DestTypes |-> 0]

\* AppleScript `contains` on the titles of the universe
Contains(hay, needle) ==
    /\ needle # ""
    /\ \/ hay = needle
       \/ hay = "ab" /\ needle \in {"a", "b"}

-----------------------------------------------------------------------------
(* The destination client: class ICloudIntegration *)

\* a destination call and what it returned, appended to the handler's call log
Call(op, arg, ret) == [op |-> op, arg |-> arg, ret |-> ret]

Ret(ok) == IF ok THEN "true" ELSE "false"

\* create_event: on success one more event carrying the event's marker and title
create_event(d, ev, ok) ==
    IF ok
    THEN [t \in DestTypes |->
            IF t = [marker |-> ev.stable_key, summary |-> ev.summary]
            THEN d[t] + 1 ELSE d[t]]
    ELSE d

\* delete_event_by_summary: on success every event whose title contains the
\* text is gone; the call succeeds also when no title matched
delete_event_by_summary(d, event_summary, ok) ==
    IF ok
    THEN [t \in DestTypes |-> IF Contains(t.summary, event_summary) THEN 0 ELSE d[t]]
    ELSE d

\* delete_event_by_sync_uid: ICloudIntegration has no such method; this is the
\* delete_by_marker of the destination contract: on success every event that
\* carries the marker of the key is gone
delete_event_by_sync_uid(d, stable_key, ok) ==
    IF ok
    THEN [t \in DestTypes |-> IF t.marker = stable_key THEN 0 ELSE d[t]]
    ELSE d

\* a clear that deletes only the events carrying a sync marker
clear_all_events_MarkedOnly(d, ok) ==
    IF ok THEN [t \in DestTypes |-> IF t.marker = NoMarker THEN d[t] ELSE 0] ELSE d

\* clear_all_events
clear_all_events(d, ok) == IF ok THEN EmptyDest ELSE d

\* get_existing_events: the parsed list, [] after any other failure, or the
\* sentinels "TIMEOUT" and None
get_existing_events(d, outcome) ==
    CASE outcome = "ok" -> [kind |-> "list", events |-> d]
      [] outcome = "error" -> [kind |-> "list", events |-> EmptyDest]
      [] outcome = "timeout" -> [kind |-> "TIMEOUT", events |-> EmptyDest]
      [] OTHER -> [kind |-> "None", events |-> EmptyDest]

\* what the call log shows of a listing: the list, the empty list after a
\* failure, or the sentinel
ListRet(outcome) ==
    CASE outcome = "ok" -> "list"
      [] outcome = "error" -> "[] after error"
      [] outcome = "timeout" -> "TIMEOUT"
      [] OTHER -> "None"

-----------------------------------------------------------------------------
(* The sync state ledger: stable key -> entry *)

EmptyState == [k \in {} |-> [uid |-> "", summary |-> "", hash |-> << >>]]

Entry(ev) == [uid |-> ev.uid, summary |-> ev.summary, hash |-> ev.hash]

Upsert(st, k, entry) ==
    [x \in (DOMAIN st) \cup {k} |-> IF x = k THEN entry ELSE st[x]]

Remove(st, K) == [x \in (DOMAIN st) \ K |-> st[x]]

\* the list of the events of a set, in list order
EventList(events) ==
    LET ks == KeyList(KeysOf(events))
    IN  [i \in 1..Len(ks) |-> EventOf(events, ks[i])]

SeqKeys(evs) == { evs[i].stable_key : i \in 1..Len(evs) }

-----------------------------------------------------------------------------
(* CalSync: detection *)

\* extract_sync_keys_from_icloud_events: the keys of the markers found in the
\* descriptions of a listing
extract_sync_keys_from_icloud_events(icloud_events) ==
    { t.marker : t \in { x \in DestTypes : icloud_events[x] > 0 /\ x.marker # NoMarker } }

\* a detector that compares the uid where it should compare the stable key
AddedEvents_ByUid(current_events, st) ==
    SelectSeq(current_events,
              LAMBDA e : e.uid \notin { st[k].uid : k \in DOMAIN st })

\* the first loop of detect_changes: the events whose key is not synced
AddedEvents(current_events, st) ==
    SelectSeq(current_events, LAMBDA e : e.stable_key \notin DOMAIN st)

\* a record that takes the defaults (the key) where it should read the entry
DeletedRecord_Defaults(st, k) ==
    [uid |-> k, stable_key |-> k, summary |-> k]

\* the record detect_changes emits for a synced key that is gone
DeletedRecord(st, k) ==
    [uid |-> st[k].uid, stable_key |-> k, summary |-> st[k].summary]

\* the second loop: one record for every synced key that is not current
DeletedEvents(current_events, st) ==
    LET gone == KeyList({ k \in DOMAIN st : k \notin SeqKeys(current_events) })
    IN  [i \in 1..Len(gone) |-> DeletedRecord(st, gone[i])]

\* a detector that compares the title where it should compare the hash
ModifiedEvents_ByTitle(current_events, st) ==
    SelectSeq(current_events,
              LAMBDA e : /\ e.stable_key \in DOMAIN st
                         /\ e.summary # st[e.stable_key].summary)

\* the third loop: the events whose key is synced with another hash
ModifiedEvents(current_events, st) ==
    SelectSeq(current_events,
              LAMBDA e : /\ e.stable_key \in DOMAIN st
                         /\ e.hash # st[e.stable_key].hash)

\* detect_changes: (added, modified, deleted) of the current events against
\* the sync state
detect_changes(current_events, st) ==
    [added |-> AddedEvents(current_events, st),
     modified |-> ModifiedEvents(current_events, st),
     deleted |-> DeletedEvents(current_events, st)]

\* a safety check that forgot the factor 0.5
TooManyMissing_NoHalf(missing, total_caldav_events) ==
    missing > total_caldav_events

\* the safety check of detect_icloud_deletions: more missing than half of the
\* source events
TooManyMissing(missing, total_caldav_events) ==
    2 * missing > total_caldav_events

\* a search that forgot to ask whether the event was synced at all
MissingInICloud_Unsynced(caldav_events, st, icloud_sync_keys) ==
    SelectSeq(caldav_events, LAMBDA e : e.stable_key \notin icloud_sync_keys)

\* the events that are current and synced and whose key no marker shows
MissingInICloud(caldav_events, st, icloud_sync_keys) ==
    SelectSeq(caldav_events,
              LAMBDA e : /\ e.stable_key \in (DOMAIN st) \cap SeqKeys(caldav_events)
                         /\ e.stable_key \notin icloud_sync_keys)

\* a detection that takes a listing that timed out for an empty calendar
detect_icloud_deletions_IgnoresTimeout(caldav_events, st, icloud_events, cfg) ==
    IF icloud_events.kind # "list" THEN [kind |-> "list", events |-> << >>]
    ELSE
      LET icloud_sync_keys == extract_sync_keys_from_icloud_events(icloud_events.events)
          missing_in_icloud == MissingInICloud(caldav_events, st, icloud_sync_keys)
      IN  IF /\ Len(missing_in_icloud) > 0
             /\ TooManyMissing(Len(missing_in_icloud), Len(caldav_events))
             /\ cfg.skip_sync_on_too_many_missing
          THEN [kind |-> "TOO_MANY_MISSING", events |-> << >>]
          ELSE [kind |-> "list", events |-> missing_in_icloud]

\* detect_icloud_deletions, given what get_existing_events returned
detect_icloud_deletions(caldav_events, st, icloud_events, cfg) ==
    IF icloud_events.kind = "TIMEOUT" THEN [kind |-> "TIMEOUT", events |-> << >>]
    ELSE IF icloud_events.kind = "None" THEN [kind |-> "list", events |-> << >>]
    ELSE
      LET icloud_sync_keys == extract_sync_keys_from_icloud_events(icloud_events.events)
          missing_in_icloud == MissingInICloud(caldav_events, st, icloud_sync_keys)
      IN  IF /\ Len(missing_in_icloud) > 0
             /\ TooManyMissing(Len(missing_in_icloud), Len(caldav_events))
             /\ cfg.skip_sync_on_too_many_missing
          THEN [kind |-> "TOO_MANY_MISSING", events |-> << >>]
          ELSE [kind |-> "list", events |-> missing_in_icloud]

-----------------------------------------------------------------------------
(* CalSync: reconciliation.  A world w is the sync state, the destination,   *)
(* the call log and the success count while a handler runs.                  *)

World(st, d, calls) == [st |-> st, dest |-> d, calls |-> calls, success_count |-> 0]

Logged(w, op, arg, ok) == Append(w.calls, Call(op, arg, Ret(ok)))

\* an add loop that writes the state entry before looking at the result
RECURSIVE AddLoop_Optimistic(_, _, _)
AddLoop_Optimistic(w, evs, okKeys) ==
    IF evs = << >> THEN w
    ELSE
      LET event == Head(evs)
          ok == event.stable_key \in okKeys
          w1 == [w EXCEPT !.dest = create_event(w.dest, event, ok),
                          !.calls = Logged(w, "create_event", event.stable_key, ok),
                          !.st = Upsert(w.st, event.stable_key, Entry(event)),
                          !.success_count = w.success_count + (IF ok THEN 1 ELSE 0)]
      IN  AddLoop_Optimistic(w1, Tail(evs), okKeys)

\* an add loop that gives up the rest of the batch at the first failure
RECURSIVE AddLoop_StopsAtFailure(_, _, _)
AddLoop_StopsAtFailure(w, evs, okKeys) ==
    IF evs = << >> THEN w
    ELSE
      LET event == Head(evs)
          ok == event.stable_key \in okKeys
          w1 == [w EXCEPT !.dest = create_event(w.dest, event, ok),
                          !.calls = Logged(w, "create_event", event.stable_key, ok)]
          w2 == [w1 EXCEPT !.st = Upsert(w1.st, event.stable_key, Entry(event)),
                           !.success_count = w1.success_count + 1]
      IN  IF ok THEN AddLoop_StopsAtFailure(w2, Tail(evs), okKeys) ELSE w1

\* the loop over added_events
RECURSIVE AddLoop(_, _, _)
AddLoop(w, evs, okKeys) ==
    IF evs = << >> THEN w
    ELSE
      LET event == Head(evs)
          ok == event.stable_key \in okKeys
          w1 == [w EXCEPT !.dest = create_event(w.dest, event, ok),
                          !.calls = Logged(w, "create_event", event.stable_key, ok)]
          w2 == IF ok
                THEN [w1 EXCEPT !.st = Upsert(w1.st, event.stable_key, Entry(event)),
                                !.success_count = w1.success_count + 1]
                ELSE w1
      IN  AddLoop(w2, Tail(evs), okKeys)

\* a delete that tries the title as well after the marker matched
DeleteOld_Both(w, stable_key, event_summary, uidOk, sumOk) ==
    LET ok1 == stable_key \in uidOk
        ok2 == stable_key \in sumOk
        d1 == delete_event_by_sync_uid(w.dest, stable_key, ok1)
    IN  [w |-> [w EXCEPT
                  !.dest = delete_event_by_summary(d1, event_summary, ok2),
                  !.calls = w.calls \o <<Call("delete_event_by_sync_uid", stable_key, Ret(ok1)),
                                         Call("delete_event_by_summary", event_summary, Ret(ok2))>>],
         delete_success |-> ok1 \/ ok2]

\* delete by marker first, by title only when that failed
DeleteOld(w, stable_key, event_summary, uidOk, sumOk) ==
    LET ok1 == stable_key \in uidOk
        w1 == [w EXCEPT !.dest = delete_event_by_sync_uid(w.dest, stable_key, ok1),
                        !.calls = Logged(w, "delete_event_by_sync_uid", stable_key, ok1)]
        ok2 == stable_key \in sumOk
    IN  IF ok1 THEN [w |-> w1, delete_success |-> TRUE]
        ELSE [w |-> [w1 EXCEPT
                       !.dest = delete_event_by_summary(w1.dest, event_summary, ok2),
                       !.calls = Logged(w1, "delete_event_by_summary", event_summary, ok2)],
              delete_success |-> ok2]

\* a modify loop that gives up on an event whose old version it could not delete
RECURSIVE ModifyLoop_NeedsDelete(_, _, _, _, _)
ModifyLoop_NeedsDelete(w, evs, uidOk, sumOk, okKeys) ==
    IF evs = << >> THEN w
    ELSE
      LET event == Head(evs)
          del == DeleteOld(w, event.stable_key, event.summary, uidOk, sumOk)
          ok == event.stable_key \in okKeys
          w1 == [del.w EXCEPT !.dest = create_event(del.w.dest, event, ok),
                              !.calls = Logged(del.w, "create_event", event.stable_key, ok)]
          w2 == IF ok
                THEN [w1 EXCEPT !.st = Upsert(w1.st, event.stable_key, Entry(event)),
                                !.success_count = w1.success_count + 1]
                ELSE w1
      IN  ModifyLoop_NeedsDelete(IF del.delete_success THEN w2 ELSE del.w,
                                 Tail(evs), uidOk, sumOk, okKeys)

\* the loop over modified_events: delete the old event, then create the new one
RECURSIVE ModifyLoop(_, _, _, _, _)
ModifyLoop(w, evs, uidOk, sumOk, okKeys) ==
    IF evs = << >> THEN w
    ELSE
      LET event == Head(evs)
          del == DeleteOld(w, event.stable_key, event.summary, uidOk, sumOk)
          ok == event.stable_key \in okKeys
          w1 == [del.w EXCEPT !.dest = create_event(del.w.dest, event, ok),
                              !.calls = Logged(del.w, "create_event", event.stable_key, ok)]
          w2 == IF ok
                THEN [w1 EXCEPT !.st = Upsert(w1.st, event.stable_key, Entry(event)),
                                !.success_count = w1.success_count + 1]
                ELSE w1
      IN  ModifyLoop(w2, Tail(evs), uidOk, sumOk, okKeys)

\* the loop over deleted_events
RECURSIVE DeleteLoop(_, _, _, _)
DeleteLoop(w, recs, uidOk, sumOk) ==
    IF recs = << >> THEN w
    ELSE
      LET event == Head(recs)
          del == DeleteOld(w, event.stable_key, event.summary, uidOk, sumOk)
          w2 == IF del.delete_success
                THEN [del.w EXCEPT !.st = Remove(del.w.st, {event.stable_key}),
                                   !.success_count = del.w.success_count + 1]
                ELSE del.w
      IN  DeleteLoop(w2, Tail(recs), uidOk, sumOk)

\* a recovery loop that writes the event's entry like the add loop does
RECURSIVE RecoveryLoop_Upsert(_, _, _)
RecoveryLoop_Upsert(w, evs, okKeys) ==
    IF evs = << >> THEN w
    ELSE
      LET event == Head(evs)
          ok == event.stable_key \in okKeys
          w1 == [w EXCEPT !.dest = create_event(w.dest, event, ok),
                          !.calls = Logged(w, "create_event", event.stable_key, ok)]
          w2 == IF ok
                THEN [w1 EXCEPT !.st = Upsert(w1.st, event.stable_key, Entry(event)),
                                !.success_count = w1.success_count + 1]
                ELSE w1
      IN  RecoveryLoop_Upsert(w2, Tail(evs), okKeys)

\* the loop over icloud_recovery_events: the entry only gets a new last_sync
RECURSIVE RecoveryLoop(_, _, _)
RecoveryLoop(w, evs, okKeys) ==
    IF evs = << >> THEN w
    ELSE
      LET event == Head(evs)
          ok == event.stable_key \in okKeys
          w1 == [w EXCEPT !.dest = create_event(w.dest, event, ok),
                          !.calls = Logged(w, "create_event", event.stable_key, ok)]
          w2 == IF ok THEN [w1 EXCEPT !.success_count = w1.success_count + 1] ELSE w1
      IN  RecoveryLoop(w2, Tail(evs), okKeys)

\* a capability check that asks only for the operation every loop uses
missing_methods_CreateOnly(methods) == {"create_event"} \ methods

\* the capability check of sync_to_icloud
missing_methods(methods) == required_methods \ methods

\* a sync_to_icloud that reports success whatever its loops achieved
sync_to_icloud_AlwaysTrue(w, added_events, modified_events, deleted_events, icloud_recovery_events, methods, oc) ==
    LET w1 == AddLoop(w, added_events, oc.addOk)
        w2 == ModifyLoop(w1, modified_events, oc.uidOk, oc.sumOk, oc.modOk)
        w3 == DeleteLoop(w2, deleted_events, oc.uidOk, oc.sumOk)
        w4 == RecoveryLoop(w3, icloud_recovery_events, oc.recOk)
    IN  IF missing_methods(methods) # {} THEN [w |-> w, ret |-> FALSE]
        ELSE [w |-> w4, ret |-> TRUE]

\* sync_to_icloud; oc gives the results of the destination calls it makes
sync_to_icloud(w, added_events, modified_events, deleted_events, icloud_recovery_events, methods, oc) ==
    LET total_events == Len(added_events) + Len(modified_events)
                        + Len(deleted_events) + Len(icloud_recovery_events)
    IN  IF missing_methods(methods) # {} THEN [w |-> w, ret |-> FALSE]
        ELSE IF total_events = 0 THEN [w |-> w, ret |-> TRUE]
        ELSE
          LET w1 == AddLoop(w, added_events, oc.addOk)
              w2 == ModifyLoop(w1, modified_events, oc.uidOk, oc.sumOk, oc.modOk)
              w3 == DeleteLoop(w2, deleted_events, oc.uidOk, oc.sumOk)
              w4 == RecoveryLoop(w3, icloud_recovery_events, oc.recOk)
          IN  [w |-> w4, ret |-> w4.success_count > 0]

\* the sets of at most n elements of P
RECURSIVE SubsetsUpTo(_, _)
SubsetsUpTo(P, n) ==
    IF n <= 0 THEN {{}}
    ELSE LET prev == SubsetsUpTo(P, n - 1)
         IN  prev \cup { F \cup {c} : F \in prev, c \in P }

\* the destination calls one sync_to_icloud can make, as <<loop, key>>; the
\* delete by title is made only after the delete by marker failed
SyncCalls(added_events, modified_events, deleted_events, icloud_recovery_events) ==
    LET dk == SeqKeys(modified_events) \cup SeqKeys(deleted_events)
    IN  ({"add"} \X SeqKeys(added_events))
        \cup ({"mod"} \X SeqKeys(modified_events))
        \cup ({"rec"} \X SeqKeys(icloud_recovery_events))
        \cup ({"uid", "sum"} \X dk)

\* what a set of failing calls costs of the failures one run may have: a
\* delete that fails by marker and then by title is one failed delete
FailCost(F) == Cardinality({ c \in F : c[1] # "sum" })

\* the ways at most n of these operations fail
SyncFailures(added_events, modified_events, deleted_events, icloud_recovery_events, n) ==
    LET calls == SyncCalls(added_events, modified_events, deleted_events,
                           icloud_recovery_events)
        first == SubsetsUpTo({ c \in calls : c[1] # "sum" }, n)
        FallbacksOf(F) == { c \in calls : c[1] = "sum" /\ <<"uid", c[2]>> \in F }
    IN  UNION { { F \cup S : S \in SUBSET FallbacksOf(F) } : F \in first }

\* the results of the calls, given the calls that fail
SyncOutcome(F) ==
    LET Ok(loop) == { k \in Keys : <<loop, k>> \notin F }
    IN  [addOk |-> Ok("add"), modOk |-> Ok("mod"), recOk |-> Ok("rec"),
         uidOk |-> Ok("uid"), sumOk |-> Ok("sum")]

\* what a listing outcome costs of the failures one run may have
Cost(outcome) == IF outcome = "ok" THEN 0 ELSE 1

ListOutcomesWithin(n) == IF n > 0 THEN ListOutcomes ELSE {"ok"}

-----------------------------------------------------------------------------
(* CalSync: verification and force-resync *)

Summaries(events) == { e.summary : e \in { x \in events : x.summary # "" } }

ListedSummaries(icloud_events) ==
    { t.summary : t \in { x \in DestTypes : icloud_events[x] > 0 /\ x.summary # "" } }

\* a comparison that also fails a coverage equal to the threshold
CoverageLow_Inclusive(covered, total, verify_threshold) ==
    100 * covered <= verify_threshold * Max(total, 1)

\* real_sync_coverage < verify_threshold, with the threshold in percent
CoverageLow(covered, total, verify_threshold) ==
    100 * covered < verify_threshold * Max(total, 1)

\* summary_match_ratio < 0.7
TitleMatchLow(common, total) == 10 * common < TitleRatioTenths * Max(total, 1)

\* verify_sync, given what get_existing_events returned
verify_sync(w, caldav_events, icloud_events, cfg) ==
    IF icloud_events.kind = "None" THEN [w |-> w, ret |-> FALSE]
    ELSE IF icloud_events.kind = "TIMEOUT"
    THEN \* the string has no events: extracting the markers raises, caught
         [w |-> w, ret |-> FALSE]
    ELSE
      LET synced_keys == DOMAIN w.st
          caldav_keys == SeqKeys(caldav_events)
          icloud_sync_keys == extract_sync_keys_from_icloud_events(icloud_events.events)
          orphaned_sync_keys == synced_keys \ caldav_keys
          w1 == [w EXCEPT !.st = Remove(w.st, orphaned_sync_keys)]
          actually_in_icloud_keys == caldav_keys \cap icloud_sync_keys
          caldav_summaries == Summaries({ caldav_events[i] : i \in 1..Len(caldav_events) })
          icloud_summaries == ListedSummaries(icloud_events.events)
          common_summaries == caldav_summaries \cap icloud_summaries
      IN  IF CoverageLow(Cardinality(actually_in_icloud_keys),
                         Cardinality(caldav_keys), cfg.verify_threshold)
          THEN [w |-> w1, ret |-> FALSE]
          ELSE IF TitleMatchLow(Cardinality(common_summaries),
                                Cardinality(caldav_summaries))
          THEN [w |-> w1, ret |-> FALSE]
          ELSE [w |-> w1, ret |-> TRUE]

\* the loop of force_resync that recreates every event
RECURSIVE RecreateLoop(_, _, _)
RecreateLoop(w, evs, okKeys) ==
    IF evs = << >> THEN w
    ELSE
      LET event == Head(evs)
          ok == event.stable_key \in okKeys
      IN  RecreateLoop([w EXCEPT !.dest = create_event(w.dest, event, ok),
                                 !.calls = Logged(w, "create_event", event.stable_key, ok)],
                       Tail(evs), okKeys)

\* the sync state force_resync rebuilds: an entry for every event
RECURSIVE RebuildState(_, _)
RebuildState(st, evs) ==
    IF evs = << >> THEN st
    ELSE RebuildState(Upsert(st, Head(evs).stable_key, Entry(Head(evs))), Tail(evs))

\* a force_resync that reports success once the events are recreated
force_resync_Unverified(w, caldav_events, clearOk, okKeys, outcome, cfg) ==
    [w |-> [w EXCEPT !.dest = RecreateLoop([w EXCEPT !.dest = clear_all_events(w.dest, clearOk)],
                                           caldav_events, okKeys).dest,
                     !.st = RebuildState(EmptyState, caldav_events),
                     !.calls = RecreateLoop([w EXCEPT !.calls = Logged(w, "clear_all_events", "", clearOk)],
                                            caldav_events, okKeys).calls
                               \o <<Call("get_existing_events", "", ListRet(outcome))>>],
     ret |-> TRUE]

\* force_resync: clear, recreate, rebuild the state, verify again
force_resync(w, caldav_events, clearOk, okKeys, outcome, cfg) ==
    LET w1 == [w EXCEPT !.dest = clear_all_events(w.dest, clearOk),
                        !.calls = Logged(w, "clear_all_events", "", clearOk)]
        w2 == RecreateLoop(w1, caldav_events, okKeys)
        w3 == [w2 EXCEPT !.st = RebuildState(EmptyState, caldav_events)]
        icloud_events == get_existing_events(w3.dest, outcome)
        w4 == [w3 EXCEPT !.calls = Append(w3.calls, Call("get_existing_events", "", ListRet(outcome)))]
    IN  verify_sync(w4, caldav_events, icloud_events, cfg)

-----------------------------------------------------------------------------
(* The record of the last handler run *)

NoChanges == [added |-> << >>, modified |-> << >>, deleted |-> << >>]

NoDetection == [kind |-> "off", events |-> << >>]

NoListing == [kind |-> "off", events |-> EmptyDest]

NoLast ==
    [op |-> "none", path |-> "none", ret |-> FALSE, calls |-> << >>,
     pre_state |-> EmptyState, pre_dest |-> EmptyDest,
     changes |-> NoChanges, listing |-> NoListing, detection |-> NoDetection,
     synced |-> EmptyState, verify |-> << >>]

\* one verify_sync call: what the listing was and what it returned
Verified(icloud_events, v) == [icloud_events |-> icloud_events, ret |-> v.ret]

\* the handler returns: its effects and its record become the state
Finish(op, path, w, ret, changes, listing, detection, synced, verify) ==
    /\ DestSize(w.dest) <= MaxDest
    /\ sync_state' = w.st
    /\ dest' = w.dest
    /\ pc' = "done"
    /\ last' = [op |-> op, path |-> path, ret |-> ret, calls |-> w.calls,
                pre_state |-> sync_state, pre_dest |-> dest,
                changes |-> changes, listing |-> listing, detection |-> detection,
                synced |-> synced, verify |-> verify]
    /\ UNCHANGED <<source, config, client>>

-----------------------------------------------------------------------------
(* Initial state and actions *)

Init ==
    /\ source = {}
    /\ sync_state = EmptyState
    /\ dest = EmptyDest
    /\ config \in Configs
    /\ client \in {ICloudIntegrationMethods, ContractMethods}
    /\ pc = "idle"
    /\ last = NoLast

\* the sources change by one event: added, removed or edited
SourceChange ==
    /\ pc = "idle"
    /\ \E S \in SourceSets :
         /\ S # source
         /\ Cardinality((S \ source) \cup (source \ S)) <= 2
         /\ Cardinality(KeysOf(S \ source) \cup KeysOf(source \ S)) = 1
         /\ source' = S
    /\ UNCHANGED <<sync_state, dest, config, client, pc, last>>

\* the user deletes one event in the destination calendar
ManualDelete ==
    /\ pc = "idle"
    /\ \E t \in DestTypes :
         /\ dest[t] > 0
         /\ dest' = [dest EXCEPT ![t] = dest[t] - 1]
    /\ UNCHANGED <<source, sync_state, config, client, pc, last>>

\* the user adds an event of their own to the destination calendar
ManualAdd ==
    /\ pc = "idle"
    /\ DestSize(dest) < MaxDest
    /\ dest' = create_event(dest, [stable_key |-> NoMarker, summary |-> "a"], TRUE)
    /\ UNCHANGED <<source, sync_state, config, client, pc, last>>

\* the tail of sync_calendars after a failed verification, and the handler
\* behind --force-resync: force_resync with the results of its calls, of which
\* at most n fail
RunForceResync(op, w, current_events, changes, listing, detection, synced, verify, n) ==
    \E F \in SubsetsUpTo({<<"clear", "">>} \cup ({"create"} \X SeqKeys(current_events)), n) :
      \E outcome \in ListOutcomesWithin(n - Cardinality(F)) :
        \E clearOk \in {<<"clear", "">> \notin F} :
          \E okKeys \in {{ k \in Keys : <<"create", k>> \notin F }} :
            \E f \in {force_resync(w, current_events, clearOk, okKeys, outcome, config)} :
              \E icloud_events \in
                   {get_existing_events(
                      RecreateLoop([w EXCEPT !.dest = clear_all_events(w.dest, clearOk)],
                                   current_events, okKeys).dest, outcome)} :
                Finish(op, IF f.ret THEN "force_resync_passed" ELSE "force_resync_failed",
                       f.w, f.ret, changes, listing, detection, synced,
                       Append(verify, Verified(icloud_events, f)))

\* sync_calendars after the connections are up and the sources gave events:
\* what detection found decides whether the cycle is skipped
Reconcile(op, w1, current_events, changes, listing1, detection, left) ==
    IF detection.kind = "TIMEOUT"
    THEN Finish(op, "skipped_timeout", w1, TRUE, changes, listing1, detection, w1.st, << >>)
    ELSE IF detection.kind = "TOO_MANY_MISSING"
    THEN Finish(op, "skipped_too_many_missing", w1, TRUE, changes,
                listing1, detection, w1.st, << >>)
    ELSE IF Len(changes.added) + Len(changes.modified)
            + Len(changes.deleted) + Len(detection.events) = 0
    THEN Finish(op, "no_changes", w1, TRUE, changes, listing1, detection, w1.st, << >>)
    ELSE IF missing_methods(client) # {}
    THEN Finish(op, "missing_methods", w1, FALSE, changes, listing1, detection, w1.st, << >>)
    ELSE
      \E F \in SyncFailures(changes.added, changes.modified, changes.deleted,
                             detection.events, left) :
        \E s \in {sync_to_icloud(w1, changes.added, changes.modified,
                                 changes.deleted, detection.events, client,
                                 SyncOutcome(F))} :
          IF ~s.ret
          THEN Finish(op, "sync_failed", s.w, FALSE, changes, listing1, detection,
                      s.w.st, << >>)
          ELSE
            \E outcome2 \in ListOutcomesWithin(left - FailCost(F)) :
              \E listing2 \in {get_existing_events(s.w.dest, outcome2)} :
                \E v \in {verify_sync(
                            [s.w EXCEPT !.calls =
                               Append(s.w.calls,
                                      Call("get_existing_events", "", ListRet(outcome2)))],
                            current_events, listing2, config)} :
                  IF v.ret
                  THEN Finish(op, "verified", v.w, TRUE, changes, listing1,
                              detection, s.w.st, <<Verified(listing2, v)>>)
                  ELSE RunForceResync(op, v.w, current_events, changes, listing1,
                                      detection, s.w.st, <<Verified(listing2, v)>>,
                                      left - FailCost(F) - Cost(outcome2))

\* sync_calendars: one sync cycle
SyncCalendars ==
    /\ pc = "idle"
    /\ \E conn \in ConnOutcomes :
         IF conn # "ok"
         THEN Finish("sync_calendars", "connect_failed", World(sync_state, dest, << >>),
                     FALSE, NoChanges, NoListing, NoDetection, sync_state, << >>)
         ELSE IF EventList(source) = << >>
         THEN Finish("sync_calendars", "no_events", World(sync_state, dest, << >>),
                     TRUE, NoChanges, NoListing, NoDetection, sync_state, << >>)
         ELSE IF ~config.override_icloud_deletions
         THEN Reconcile("sync_calendars", World(sync_state, dest, << >>),
                        EventList(source),
                        detect_changes(EventList(source), sync_state),
                        NoListing, NoDetection, MaxFailures)
         ELSE
           \E outcome1 \in ListOutcomes :
             \E listing1 \in {get_existing_events(dest, outcome1)} :
               Reconcile("sync_calendars",
                         World(sync_state, dest,
                               <<Call("get_existing_events", "", ListRet(outcome1))>>),
                         EventList(source),
                         detect_changes(EventList(source), sync_state),
                         listing1,
                         detect_icloud_deletions(EventList(source), sync_state,
                                                 listing1, config),
                         MaxFailures - Cost(outcome1))

\* the --force-resync command (and the force mode of the batch runner)
ForceResync ==
    /\ pc = "idle"
    /\ \E conn \in ConnOutcomes :
         IF conn # "ok"
         THEN Finish("force_resync", "connect_failed", World(sync_state, dest, << >>),
                     FALSE, NoChanges, NoListing, NoDetection, sync_state, << >>)
         ELSE IF EventList(source) = << >>
         THEN Finish("force_resync", "no_events", World(sync_state, dest, << >>),
                     TRUE, NoChanges, NoListing, NoDetection, sync_state, << >>)
         ELSE RunForceResync("force_resync", World(sync_state, dest, << >>),
                             EventList(source), NoChanges, NoListing,
                             NoDetection, sync_state, << >>, MaxFailures)

\* the handler's result is logged and the process waits for the next trigger
Return ==
    /\ pc = "done"
    /\ pc' = "idle"
    /\ last' = NoLast
    /\ UNCHANGED <<source, sync_state, dest, config, client>>

Next ==
    \/ SourceChange
    \/ ManualDelete
    \/ ManualAdd
    \/ SyncCalendars
    \/ ForceResync
    \/ Return

Spec == Init /\ [][Next]_vars

-----------------------------------------------------------------------------
(* detect_changes on every event set and every sync state of the universe *)

\* the sync states whose entries were written from events of the universe
SyncStates == { RebuildState(EmptyState, EventList(S)) : S \in SourceSets }

InitDetect ==
    /\ source \in SourceSets
    /\ sync_state \in SyncStates
    /\ dest = EmptyDest
    /\ config \in Configs
    /\ client = ICloudIntegrationMethods
    /\ pc = "idle"
    /\ last = NoLast

DetectChanges ==
    /\ pc = "idle"
    /\ pc' = "done"
    /\ last' = [NoLast EXCEPT !.op = "detect_changes",
                              !.pre_state = sync_state,
                              !.changes = detect_changes(EventList(source), sync_state)]
    /\ UNCHANGED <<source, sync_state, dest, config, client>>

SpecDetect == InitDetect /\ [][DetectChanges]_vars

-----------------------------------------------------------------------------
(* Vocabulary of the properties *)

Range(seq) == { seq[i] : i \in 1..Len(seq) }

NoDuplicates(seq) == \A i, j \in 1..Len(seq) : seq[i] = seq[j] => i = j

Detected == pc = "done" /\ last.op = "detect_changes"

\* the markers the destination calendar holds
MarkersAt(d) == { t.marker : t \in { x \in DestTypes : d[x] > 0 /\ x.marker # NoMarker } }

\* a sync_calendars run that got past the connections
CycleRan == pc = "done" /\ last.op = "sync_calendars" /\ last.path # "connect_failed"

Mutations == {"create_event", "delete_event_by_sync_uid", "delete_event_by_summary",
              "clear_all_events"}

\* every destination call of the run did what it was asked to
AllCallsSucceeded ==
    \A i \in 1..Len(last.calls) : last.calls[i].ret \in {"true", "list"}

NoMutationCalled == \A i \in 1..Len(last.calls) : last.calls[i].op \notin Mutations

-----------------------------------------------------------------------------
(* C2 - C4: detect_changes *)

\* C2: detect_changes reports as added exactly the current events whose
\* stable key is not a key of the sync state, each of them once.
C2_AddedExactlyUnsynced ==
    Detected =>
        /\ Range(last.changes.added)
             = { e \in source : e.stable_key \notin DOMAIN sync_state }
        /\ NoDuplicates(last.changes.added)

\* both cases at once: one event is reported as added, another is not
C2_Witness ==
    /\ Detected
    /\ last.changes.added # << >>
    /\ \E e \in source : e \notin Range(last.changes.added)

\* C3: detect_changes reports as deleted exactly one record for every key of
\* the sync state that is no stable key of a current event, and the record's
\* uid and summary are those of the stored entry.
C3_DeletedFromStoredEntries ==
    Detected =>
        /\ Range(last.changes.deleted)
             = { [uid |-> sync_state[k].uid, stable_key |-> k,
                  summary |-> sync_state[k].summary] :
                 k \in (DOMAIN sync_state) \ KeysOf(source) }
        /\ \A i, j \in 1..Len(last.changes.deleted) :
             last.changes.deleted[i].stable_key = last.changes.deleted[j].stable_key
               => i = j

\* a key is reported as deleted while another synced key is still current
C3_Witness ==
    /\ Detected
    /\ last.changes.deleted # << >>
    /\ (DOMAIN sync_state) \cap KeysOf(source) # {}

\* C4: detect_changes reports as modified exactly the current events whose
\* key is synced with another hash; an event synced with the same hash is in
\* none of the three lists, and the key sets of the lists are pairwise disjoint.
C4_ModifiedExactlyHashDiffers ==
    Detected =>
        LET c == last.changes
            ka == SeqKeys(c.added)
            km == SeqKeys(c.modified)
            kd == SeqKeys(c.deleted)
        IN  /\ Range(c.modified)
                 = { e \in source : /\ e.stable_key \in DOMAIN sync_state
                                    /\ e.hash # sync_state[e.stable_key].hash }
            /\ NoDuplicates(c.modified)
            /\ \A e \in source :
                 (e.stable_key \in DOMAIN sync_state
                    /\ e.hash = sync_state[e.stable_key].hash)
                 => e.stable_key \notin ka \cup km \cup kd
            /\ ka \cap km = {} /\ ka \cap kd = {} /\ km \cap kd = {}

\* one event is reported as modified and an unchanged one is left out
C4_Witness ==
    /\ Detected
    /\ last.changes.modified # << >>
    /\ \E e \in source :
         /\ e.stable_key \in DOMAIN sync_state
         /\ e.hash = sync_state[e.stable_key].hash

-----------------------------------------------------------------------------
(* C1, C5: what a cycle leaves behind *)

\* C1: a sync_calendars run that starts with the sync state's keys equal to
\* the destination's markers, in which every destination call succeeds and
\* which returns success, ends with the destination's markers equal to the
\* stable keys of the source events, whatever the source events are (none
\* included).
C1_MirrorAfterCycle ==
    (/\ CycleRan
     /\ DOMAIN last.pre_state = MarkersAt(last.pre_dest)
     /\ AllCallsSucceeded
     /\ last.ret = TRUE)
    => MarkersAt(dest) = KeysOf(source)

\* C5: after a sync_calendars run in which every destination call succeeded
\* and which returned success, detect_changes on the same events reports
\* nothing added, nothing modified and nothing deleted.
C5_RedetectionEmpty ==
    (/\ CycleRan
     /\ AllCallsSucceeded
     /\ last.ret = TRUE)
    => detect_changes(EventList(source), sync_state) = NoChanges

-----------------------------------------------------------------------------
(* C6 - C9: manual-deletion detection and the listing's sentinels *)

\* the events detection saw as synced and current, without a marker listed
MissingListed ==
    { e \in source : /\ e.stable_key \in DOMAIN last.pre_state
                     /\ e.stable_key \notin MarkersAt(last.listing.events) }

\* C6: with manual-deletion detection and skip_sync_on_too_many_missing on,
\* when the listing shows no marker for more than half as many synced current
\* events as there are source events, sync_calendars returns success, calls
\* no create, delete or clear, and leaves the sync state as it was.
C6_SafetyValveSkips ==
    (/\ CycleRan
     /\ config.override_icloud_deletions
     /\ config.skip_sync_on_too_many_missing
     /\ last.listing.kind = "list"
     /\ 2 * Cardinality(MissingListed) > Cardinality(source))
    => /\ last.path = "skipped_too_many_missing"
       /\ last.ret = TRUE
       /\ NoMutationCalled
       /\ sync_state = last.pre_state
       /\ dest = last.pre_dest

\* the valve trips while a change of the source is waiting to be applied and
\* the listing shows another event
C6_Witness ==
    /\ CycleRan
    /\ last.path = "skipped_too_many_missing"
    /\ last.changes # NoChanges
    /\ last.listing.events # EmptyDest

TimedOutAt(i) ==
    /\ last.calls[i].op = "get_existing_events"
    /\ last.calls[i].ret = "TIMEOUT"

\* C7: a sync_calendars run in which a listing returns TIMEOUT is skipped: it
\* returns success without reconciling, calls no create, delete or clear after
\* the timeout, and runs no force-resync.
C7_TimeoutSkipsCycle ==
    (/\ pc = "done"
     /\ last.op = "sync_calendars"
     /\ \E i \in 1..Len(last.calls) : TimedOutAt(i))
    => /\ last.ret = TRUE
       /\ last.path = "skipped_timeout"
       /\ \A i, j \in 1..Len(last.calls) :
            (TimedOutAt(i) /\ j > i) => last.calls[j].op \notin Mutations
       /\ \A j \in 1..Len(last.calls) : last.calls[j].op # "clear_all_events"

CalledWith(op, arg) ==
    \E j \in 1..Len(last.calls) : last.calls[j].op = op /\ last.calls[j].arg = arg

\* C8: a sync_calendars run in which a listing returns None has an empty
\* recovery set when detection got it, never clears the destination (no
\* force-resync), and still applies the added, modified and deleted sets.
C8_InaccessibleNoForceResync ==
    (/\ pc = "done"
     /\ last.op = "sync_calendars"
     /\ \E i \in 1..Len(last.calls) :
          last.calls[i].op = "get_existing_events" /\ last.calls[i].ret = "None")
    => /\ last.listing.kind = "None" => last.detection.events = << >>
       /\ ~CalledWith("clear_all_events", "")
       /\ \A e \in Range(last.changes.added) \cup Range(last.changes.modified) :
            CalledWith("create_event", e.stable_key)
       /\ \A r \in Range(last.changes.deleted) :
            CalledWith("delete_event_by_sync_uid", r.stable_key)

\* C9: when manual-deletion detection returns a recovery list for a listing
\* that is a list, the list holds exactly the current source events whose
\* stable key is in the sync state and not among the listing's markers, each
\* once; so no event that is not yet synced, and no event that left the
\* source, is in it.
C9_RecoveryExactlyMissing ==
    (/\ CycleRan
     /\ last.listing.kind = "list"
     /\ last.detection.kind = "list")
    => /\ Range(last.detection.events) = MissingListed
       /\ NoDuplicates(last.detection.events)

\* one event is recovered while an unsynced event without marker is not
C9_Witness ==
    /\ CycleRan
    /\ last.listing.kind = "list"
    /\ last.detection.kind = "list"
    /\ last.detection.events # << >>
    /\ \E e \in source :
         /\ e.stable_key \notin DOMAIN last.pre_state
         /\ e.stable_key \notin MarkersAt(last.listing.events)

-----------------------------------------------------------------------------
(* C10: verify_sync *)

\* the source's titles and those a listing shows (untitled events have none)
TitlesOf(events) == { e.summary : e \in events } \ {""}

TitlesListed(d) == { t.summary : t \in { x \in DestTypes : d[x] > 0 } } \ {""}

\* C10: for a listing that is a list, verify_sync passes exactly when the
\* share of source keys found among the listing's markers is at least
\* verify_threshold and the share of source titles found among the listing's
\* titles is at least 0.7 (a source without any title has share 0); how many
\* events either side has does not enter.
C10_VerifyPassesIffCovered ==
    pc = "done" =>
      \A i \in 1..Len(last.verify) :
        LET v == last.verify[i]
            covered == KeysOf(source) \cap MarkersAt(v.icloud_events.events)
            common == TitlesOf(source) \cap TitlesListed(v.icloud_events.events)
        IN  v.icloud_events.kind = "list" =>
              (v.ret <=>
                 /\ 100 * Cardinality(covered)
                      >= config.verify_threshold * Cardinality(KeysOf(source))
                 /\ 10 * Cardinality(common)
                      >= 7 * Max(Cardinality(TitlesOf(source)), 1))

\* verification passes although the two sides hold different numbers of events
C10_Witness ==
    /\ pc = "done"
    /\ \E i \in 1..Len(last.verify) :
         /\ last.verify[i].icloud_events.kind = "list"
         /\ last.verify[i].ret
         /\ DestSize(last.verify[i].icloud_events.events) # Cardinality(source)

-----------------------------------------------------------------------------
(* C11 - C13: force-resync *)

\* what verify_sync has to answer for a listing: key coverage and title share
ShouldPass(v) ==
    /\ v.icloud_events.kind = "list"
    /\ 100 * Cardinality(KeysOf(source) \cap MarkersAt(v.icloud_events.events))
         >= config.verify_threshold * Cardinality(KeysOf(source))
    /\ 10 * Cardinality(TitlesOf(source) \cap TitlesListed(v.icloud_events.events))
         >= 7 * Max(Cardinality(TitlesOf(source)), 1)

\* C11: when the verification that follows reconciliation fails,
\* sync_calendars clears the destination and recreates the events
\* (force-resync), verifies once more, and returns true exactly when that
\* second verification has reason to pass, false when it has not.
C11_ForceResyncResultReturned ==
    (/\ CycleRan
     /\ Len(last.verify) >= 1
     /\ ~last.verify[1].ret)
    => /\ CalledWith("clear_all_events", "")
       /\ \A e \in source :
            \E i, j \in 1..Len(last.calls) :
              /\ i < j
              /\ last.calls[i].op = "clear_all_events"
              /\ last.calls[j].op = "create_event"
              /\ last.calls[j].arg = e.stable_key
       /\ Len(last.verify) = 2
       /\ last.ret = ShouldPass(last.verify[2])
       /\ last.path = IF last.ret THEN "force_resync_passed" ELSE "force_resync_failed"

\* the force-resync that follows a failed verification fails its own
\* verification although its listing came back: a hard failure of the cycle
C11_Witness ==
    /\ CycleRan
    /\ Len(last.verify) = 2
    /\ ~last.verify[1].ret
    /\ last.verify[2].icloud_events.kind = "list"
    /\ last.ret = FALSE

\* a run that went through force_resync, directly or after a failed verification
ForceResyncRan ==
    /\ pc = "done"
    /\ last.path \in {"force_resync_passed", "force_resync_failed"}

\* C12: a force_resync whose clear, creates and listing all succeed returns
\* true, its verification having found every source stable key among the
\* destination's markers (coverage 1.0).
C12_ForceResyncConverges ==
    (ForceResyncRan /\ AllCallsSucceeded)
    => /\ KeysOf(source) \subseteq MarkersAt(last.verify[Len(last.verify)].icloud_events.events)
       /\ last.ret = TRUE

\* the destination that holds one event per source event and nothing else
MirrorOf(events) ==
    [t \in DestTypes |->
       IF \E e \in events : t = [marker |-> e.stable_key, summary |-> e.summary]
       THEN 1 ELSE 0]

\* every create, delete and clear of the run returned success
MutationsSucceeded ==
    \A i \in 1..Len(last.calls) :
      last.calls[i].op \in Mutations => last.calls[i].ret = "true"

\* C13: a force_resync whose clear and creates succeed leaves exactly one
\* destination event per source stable key and the sync state that maps every
\* source key to its hash, whatever it started from; so a second run on the
\* result of a first one, with the same source events, changes neither.
C13_ForceResyncIdempotent ==
    (ForceResyncRan /\ MutationsSucceeded)
    => /\ dest = MirrorOf(source)
       /\ DOMAIN sync_state = KeysOf(source)
       /\ \A e \in source : sync_state[e.stable_key].hash = e.hash
       /\ (/\ last.pre_dest = MirrorOf(source)
           /\ last.pre_state = RebuildState(EmptyState, EventList(source)))
          => (dest = last.pre_dest /\ sync_state = last.pre_state)

\* the second of two force_resync runs in a row on two source events
C13_Witness ==
    /\ ForceResyncRan
    /\ last.op = "force_resync"
    /\ MutationsSucceeded
    /\ Cardinality(source) = 2
    /\ last.pre_dest = MirrorOf(source)
    /\ last.pre_state = RebuildState(EmptyState, EventList(source))
    /\ dest = last.pre_dest
    /\ sync_state = last.pre_state

-----------------------------------------------------------------------------
(* C14 - C19: what reconciliation writes to the sync state *)

\* the destination create for this key returned success during the run
Created(k) ==
    \E j \in 1..Len(last.calls) :
      /\ last.calls[j].op = "create_event"
      /\ last.calls[j].arg = k
      /\ last.calls[j].ret = "true"

\* the keys whose entry the run wrote: new, or different from before
Written(before, after) ==
    { k \in DOMAIN after : k \notin DOMAIN before \/ after[k] # before[k] }

\* C14: every sync state entry that a sync_calendars or force_resync run
\* wrote belongs to a stable key whose destination create returned success
\* in that run; no entry is written for a create that failed or never ran.
C14_StateOnlyAfterSuccess ==
    (pc = "done" /\ last.op \in {"sync_calendars", "force_resync"})
    => \A k \in Written(last.pre_state, sync_state) : Created(k)

\* a sync_calendars run whose sync_to_icloud went through its four loops
Reconciled ==
    /\ CycleRan
    /\ last.path \in {"sync_failed", "verified", "force_resync_passed", "force_resync_failed"}

\* the positions in the call log of the calls sync_to_icloud made: after the
\* listing of the deletion detection, before the listing of the verification
SyncSegment ==
    LET first == IF last.listing.kind = "off" THEN 1 ELSE 2
    IN  { j \in first..Len(last.calls) :
            \A i \in first..j : last.calls[i].op # "get_existing_events" }

\* the positions of sync_to_icloud's calls of one operation with one argument
SyncCallsOf(op, arg) ==
    { j \in SyncSegment : last.calls[j].op = op /\ last.calls[j].arg = arg }

C16_ModifyDeletesThenCreates ==
    Reconciled =>
      \A e \in Range(last.changes.modified) :
        /\ Cardinality(SyncCallsOf("delete_event_by_sync_uid", e.stable_key)) = 1
        /\ \A j \in SyncCallsOf("delete_event_by_sync_uid", e.stable_key) :
             LET c == IF last.calls[j].ret = "true" THEN j + 1 ELSE j + 2
             IN  /\ c \in SyncSegment
                 /\ last.calls[j].ret = "false"
                      => last.calls[j + 1] = Call("delete_event_by_summary", e.summary,
                                                   last.calls[j + 1].ret)
                 /\ last.calls[c].op = "create_event"
                 /\ last.calls[c].arg = e.stable_key
                 /\ e.stable_key \in DOMAIN last.synced
                 /\ IF last.calls[c].ret = "true"
                    THEN /\ last.synced[e.stable_key].hash = e.hash
                         /\ last.synced[e.stable_key] = Entry(e)
                    ELSE last.synced[e.stable_key] = last.pre_state[e.stable_key]

\* both deletes of a modified event fail and its create succeeds
C16_Witness ==
    /\ Reconciled
    /\ \E e \in Range(last.changes.modified) :
         \E j \in SyncCallsOf("delete_event_by_sync_uid", e.stable_key) :
           /\ last.calls[j].ret = "false"
           /\ last.calls[j + 1].op = "delete_event_by_summary"
           /\ last.calls[j + 1].ret = "false"
           /\ last.calls[j + 2] = Call("create_event", e.stable_key, "true")
           /\ last.synced[e.stable_key].hash = e.hash
           /\ last.pre_state[e.stable_key].hash # e.hash

\* the title sync_to_icloud uses for a key in its deletes: the modified
\* event's, or the deleted record's
TitlesFor(k) ==
    { e.summary : e \in { x \in Range(last.changes.modified) : x.stable_key = k } }
    \cup { r.summary : r \in { x \in Range(last.changes.deleted) : x.stable_key = k } }

\* C17: where sync_to_icloud runs its loops, every modified event and every
\* deleted record gets exactly one delete by marker for its stable key; a
\* delete by title is called only directly after a delete by marker that
\* returned false, with the title of that key's event, and is called then;
\* after a delete by marker that returned true no delete by title follows.
C17_MarkerDeleteBeforeTitleDelete ==
    Reconciled =>
      /\ \A k \in SeqKeys(last.changes.modified) \cup SeqKeys(last.changes.deleted) :
           Cardinality(SyncCallsOf("delete_event_by_sync_uid", k)) = 1
      /\ \A j \in SyncSegment :
           /\ last.calls[j].op = "delete_event_by_summary"
                => /\ j - 1 \in SyncSegment
                   /\ last.calls[j - 1].op = "delete_event_by_sync_uid"
                   /\ last.calls[j - 1].ret = "false"
                   /\ last.calls[j].arg \in TitlesFor(last.calls[j - 1].arg)
           /\ (last.calls[j].op = "delete_event_by_sync_uid" /\ last.calls[j].ret = "false")
                => /\ j + 1 \in SyncSegment
                   /\ last.calls[j + 1].op = "delete_event_by_summary"
           /\ (last.calls[j].op = "delete_event_by_sync_uid" /\ last.calls[j].ret = "true")
                => (j + 1 \in SyncSegment => last.calls[j + 1].op # "delete_event_by_summary")

\* in one run a modified event is deleted by marker, and a deleted record's
\* delete by marker fails and is followed by the delete by title
C17_Witness ==
    /\ Reconciled
    /\ \E e \in Range(last.changes.modified) :
         \E j \in SyncCallsOf("delete_event_by_sync_uid", e.stable_key) :
           last.calls[j].ret = "true"
    /\ \E r \in Range(last.changes.deleted) :
         \E j \in SyncCallsOf("delete_event_by_sync_uid", r.stable_key) :
           /\ last.calls[j].ret = "false"
           /\ last.calls[j + 1].op = "delete_event_by_summary"

\* a delete for this key, by marker or by title after it, returned success
DeleteSucceeded(k) ==
    \E j \in SyncCallsOf("delete_event_by_sync_uid", k) :
      \/ last.calls[j].ret = "true"
      \/ /\ j + 1 \in SyncSegment
         /\ last.calls[j + 1].op = "delete_event_by_summary"
         /\ last.calls[j + 1].ret = "true"

\* C18: where sync_to_icloud runs its loops, the entry of a key that left the
\* source is gone from the sync state at the end of the cycle only if a delete
\* for it, by marker or by title, returned success; when both failed the
\* entry is still there, so the next cycle reports the key as deleted again.
C18_EntryRemovedOnlyAfterDelete ==
    Reconciled =>
      \A r \in Range(last.changes.deleted) :
        ~DeleteSucceeded(r.stable_key)
          => /\ r.stable_key \in DOMAIN sync_state
             /\ r.stable_key \in SeqKeys(detect_changes(EventList(source), sync_state).deleted)

\* the entry the loops before the recovery loop leave for a current event:
\* the new one if the event is modified and the create of the modify loop (the
\* first create for its key) returned true, else the one from before the cycle
EntryBeforeRecovery(e) ==
    LET creates == SyncCallsOf("create_event", e.stable_key)
        first == CHOOSE j \in creates : \A i \in creates : j <= i
    IN  IF e.stable_key \in SeqKeys(last.changes.modified) /\ last.calls[first].ret = "true"
        THEN Entry(e)
        ELSE last.pre_state[e.stable_key]

\* C19: where sync_to_icloud runs its loops, each recovery event is recreated
\* and its state entry keeps the uid, summary and hash it had when the
\* recovery loop reached it, whether the create succeeds or not (only
\* last_sync is refreshed); in particular a recovery event whose modify create
\* failed keeps its old hash. Recovery creates no entry for a key without one.
C19_RecoveryKeepsEntry ==
    (Reconciled /\ last.detection.kind = "list") =>
      /\ \A e \in Range(last.detection.events) :
           /\ SyncCallsOf("create_event", e.stable_key) # {}
           /\ e.stable_key \in DOMAIN last.pre_state
           /\ e.stable_key \in DOMAIN last.synced
           /\ last.synced[e.stable_key] = EntryBeforeRecovery(e)
      /\ DOMAIN last.synced \subseteq DOMAIN last.pre_state \cup SeqKeys(last.changes.added)

\* a recovery event that is also modified: the create of the modify loop
\* fails, the create of the recovery loop succeeds, the entry keeps the old hash
C19_Witness ==
    /\ Reconciled
    /\ \E e \in Range(last.detection.events) :
         /\ e.stable_key \in SeqKeys(last.changes.modified)
         /\ \E i, j \in SyncCallsOf("create_event", e.stable_key) :
              /\ i < j
              /\ last.calls[i].ret = "false"
              /\ last.calls[j].ret = "true"
         /\ last.synced[e.stable_key] = last.pre_state[e.stable_key]
         /\ last.synced[e.stable_key].hash # e.hash

-----------------------------------------------------------------------------
(* get_source_events: the pulls of the configured sources, merged *)

\* most events one pull returns
MaxPull == 2

\* a calendar with fewer events than this is replaced by its EventKit pull
FallbackThreshold == 5

\* an event without a stable key
NoKey == ""

\* an absent value (None), and a present one
None == << >>

Some(x) == <<x>>

\* a naive datetime; day counts the days from some first day
DateTime(d, h, m, s) == [day |-> d, hour |-> h, minute |-> m, second |-> s]

\* a date; day counts the days from the same first day
Date(d) == [day |-> d]

\* isinstance(x, datetime)
IsDateTime(x) == "hour" \in DOMAIN x

\* an event dict as a pull returns it, before the pull names its calendar
PulledEvent(k, s, start, end) ==
    [stable_key |-> k, summary |-> s, start |-> start, end |-> end,
     source_calendar |-> ""]

\* a meeting of one hour
Meeting(k, s) ==
    PulledEvent(k, s, Some(DateTime(0, 10, 0, 0)), Some(DateTime(0, 11, 0, 0)))

\* the events a pull can return: one key with two titles (the second an
\* all-day event of two days, from midnight to midnight), a second key with an
\* all-day event of one day (DTSTART and DTEND as dates, DTEND being the day
\* after), and an event without a key
PullUniverse ==
    { Meeting("u1", "a"),
      PulledEvent("u1", "b", Some(DateTime(0, 0, 0, 0)), Some(DateTime(2, 0, 0, 0))),
      PulledEvent("u2", "a", Some(Date(0)), Some(Date(1))),
      Meeting(NoKey, "a") }

\* the results of one pull: lists without a repeated dict
PullLists ==
    { l \in UNION { [1..n -> PullUniverse] : n \in 0..MaxPull } : NoDuplicates(l) }

\* the lists read_events_from_eventkit can return: EventKit gives both ends
\* as datetimes
EventKitLists ==
    { l \in PullLists : \A i \in 1..Len(l) : IsDateTime(l[i].start[1]) }

\* the calendars of the CalDAV principal, by 1-based index
Calendars == <<"Work", "Home">>

\* the events of the second calendar
HomeList ==
    << Meeting("h1", "h"), Meeting("h2", "h"), Meeting("h3", "h"),
       Meeting("h4", "h"), Meeting("h5", "h") >>

\* the second calendar holds just enough events, or one too few
HomePulls ==
    { SubSeq(HomeList, 1, n) : n \in {FallbackThreshold - 1, FallbackThreshold} }

\* source_routing as the constructor completes it
Routings ==
    [caldav_indices : {<< >>, <<1>>, <<2>>, <<1, 2>>},
     eventkit_calendars : {<< >>, <<"Work">>},
     eventkit_indices : {<< >>, <<1>>},
     fallback_on_404 : BOOLEAN]

\* an option that is not set
NoLimit == << >>

\* config.sync.ignore_allday_events_longer_than_hours: unset, or a day
AllDayLimits == {NoLimit, <<24>>}

\* every event of a pull gets the name of the calendar it came from
Tagged(events, name) ==
    [i \in 1..Len(events) |-> [events[i] EXCEPT !.source_calendar = name]]

\* the events of the selected calendars, calendar after calendar
RECURSIVE get_caldav_events(_, _)
get_caldav_events(pulls, selected_calendar_indices) ==
    IF selected_calendar_indices = << >> THEN << >>
    ELSE LET name == Calendars[Head(selected_calendar_indices)]
         IN  Tagged(pulls[name], name)
               \o get_caldav_events(pulls, Tail(selected_calendar_indices))

\* `events, debug_info = read_events_from_eventkit(...)`: the bridge returns
\* the list of its events, and only a list of two unpacks into two names
Unpacks(read) == Len(read) = 2

\* `not x`, for a list or a dict
Falsy(x) == DOMAIN x = {}

\* `if not events and debug_info`, the two names being the two events read
EventKitRetries(read) == Unpacks(read) /\ Falsy(read[1]) /\ ~Falsy(read[2])

\* the reads a call can get: the first, and the one of its retry
ReadPairs ==
    UNION { { <<read, retry>> : retry \in IF EventKitRetries(read) THEN EventKitLists ELSE {<< >>} } : read \in EventKitLists }

\* the reads of the bridge that one call makes
EventKitReads_Thrice(call, reads) ==
    << [call |-> call, events |-> reads[1]], [call |-> call, events |-> reads[2]],
       [call |-> call, events |-> reads[2]] >>

EventKitReads(call, reads) ==
    IF EventKitRetries(reads[1])
    THEN << [call |-> call, events |-> reads[1]], [call |-> call, events |-> reads[2]] >>
    ELSE << [call |-> call, events |-> reads[1]] >>

\* the EventKit events of the named calendars: none, whatever the bridge read.
\* A read of other than two events raises ValueError where it is unpacked; of
\* a read of two, `events` is the first event dict, the loop that names the
\* calendar runs over its keys and the assignment into a key raises
\* TypeError. Both end in the handler that returns the empty list
get_events_via_eventkit(reads, calendar_names) ==
    IF ~Unpacks(reads[1]) THEN << >>
    ELSE IF EventKitRetries(reads[1]) /\ ~Unpacks(reads[2]) THEN << >>
    ELSE << >>

\* the EventKit events of the calendars with these CalDAV indices
get_events_via_eventkit_by_indices(reads, caldav_calendar_indices) ==
    get_events_via_eventkit(reads,
        [i \in 1..Len(caldav_calendar_indices) |-> Calendars[caldav_calendar_indices[i]]])

\* the selected calendars that returned fewer events than the threshold
RECURSIVE FallbackCalendars(_, _)
FallbackCalendars(caldav_events, caldav_indices) ==
    IF caldav_indices = << >> THEN << >>
    ELSE LET calendar_name == Calendars[Head(caldav_indices)]
             calendar_events ==
                 SelectSeq(caldav_events, LAMBDA e : e.source_calendar = calendar_name)
             rest == FallbackCalendars(caldav_events, Tail(caldav_indices))
         IN  IF Len(calendar_events) < FallbackThreshold
             THEN <<calendar_name>> \o rest
             ELSE rest

\* the CalDAV events, those of the sparse calendars replaced by what EventKit
\* returns for them, if it returns anything
_check_and_fallback_to_eventkit(caldav_events, caldav_indices, fallback_reads) ==
    LET fallback_calendars == FallbackCalendars(caldav_events, caldav_indices)
        eventkit_events == get_events_via_eventkit(fallback_reads, fallback_calendars)
        filtered_caldav_events ==
            SelectSeq(caldav_events,
                      LAMBDA e : e.source_calendar \notin Range(fallback_calendars))
    IN  IF fallback_calendars # << >> /\ eventkit_events # << >>
        THEN filtered_caldav_events \o eventkit_events
        ELSE caldav_events

\* the pulled events in the order the sources are read
AllEvents(source_routing, pulls, fallback_reads, eventkit_reads) ==
    LET caldav_indices == source_routing.caldav_indices
        caldav_events == get_caldav_events(pulls, caldav_indices)
        first ==
            IF caldav_indices = << >> THEN << >>
            ELSE IF source_routing.fallback_on_404
            THEN _check_and_fallback_to_eventkit(caldav_events, caldav_indices, fallback_reads)
            ELSE caldav_events
        second ==
            IF source_routing.eventkit_calendars # << >>
            THEN get_events_via_eventkit(eventkit_reads, source_routing.eventkit_calendars)
            ELSE IF source_routing.eventkit_indices # << >>
            THEN get_events_via_eventkit_by_indices(eventkit_reads, source_routing.eventkit_indices)
            ELSE << >>
    IN  first \o second

\* the reads of the bridge in the order get_source_events makes them
BridgeReads(source_routing, pulls, fallback_reads, eventkit_reads) ==
    LET caldav_indices == source_routing.caldav_indices
        caldav_events == get_caldav_events(pulls, caldav_indices)
        first ==
            IF /\ caldav_indices # << >>
               /\ source_routing.fallback_on_404
               /\ FallbackCalendars(caldav_events, caldav_indices) # << >>
            THEN EventKitReads("fallback", fallback_reads)
            ELSE << >>
        second ==
            IF source_routing.eventkit_calendars # << >> \/ source_routing.eventkit_indices # << >>
            THEN EventKitReads("eventkit", eventkit_reads)
            ELSE << >>
    IN  first \o second

\* a loop step that lets the last event of a key replace the first
Keep_LastSeen(unique_events, event) ==
    IF event.stable_key = NoKey THEN unique_events
    ELSE IF \E i \in 1..Len(unique_events) : unique_events[i].stable_key = event.stable_key
    THEN [i \in 1..Len(unique_events) |->
            IF unique_events[i].stable_key = event.stable_key THEN event
            ELSE unique_events[i]]
    ELSE Append(unique_events, event)

\* one step of the deduplication loop: unique_events is the dict, as the list
\* of its values in insertion order
Keep(unique_events, event) ==
    IF /\ event.stable_key # NoKey
       /\ \A i \in 1..Len(unique_events) : unique_events[i].stable_key # event.stable_key
    THEN Append(unique_events, event)
    ELSE unique_events

RECURSIVE UniqueEvents(_, _)
UniqueEvents(unique_events, all_events) ==
    IF all_events = << >> THEN unique_events
    ELSE UniqueEvents(Keep(unique_events, Head(all_events)), Tail(all_events))

\* whether the event is an all-day event
_is_allday_event(event) ==
    IF event.start = None THEN FALSE
    ELSE IF ~IsDateTime(event.start[1]) THEN TRUE
    ELSE /\ event.end # None
         /\ IsDateTime(event.end[1])
         /\ event.start[1].hour = 0
         /\ event.start[1].minute = 0
         /\ event.start[1].second = 0
         /\ \/ /\ event.end[1].hour = 23
               /\ event.end[1].minute = 59
               /\ event.end[1].second >= 59
            \/ /\ event.end[1].hour = 0
               /\ event.end[1].minute = 0
               /\ event.end[1].second = 0
               /\ event.end[1].day > event.start[1].day

\* the seconds from the first day's midnight to a datetime
Timestamp(dt) == ((dt.day * 24 + dt.hour) * 60 + dt.minute) * 60 + dt.second

SecondsPerHour == 3600

\* _get_event_duration_hours, in seconds: a date at either end makes it the
\* days from the start's date to the end's date plus one, times 24 hours
_get_event_duration_seconds(event) ==
    IF event.start = None \/ event.end = None THEN 0
    ELSE IF IsDateTime(event.start[1]) /\ IsDateTime(event.end[1])
         THEN Timestamp(event.end[1]) - Timestamp(event.start[1])
         ELSE ((event.end[1].day - event.start[1].day) + 1) * 24 * SecondsPerHour

_should_ignore_allday_event(event, max_hours) ==
    /\ _is_allday_event(event)
    /\ _get_event_duration_seconds(event) > max_hours * SecondsPerHour

filter_allday_events(events, max_hours) ==
    IF max_hours = NoLimit THEN events
    ELSE SelectSeq(events, LAMBDA e : ~_should_ignore_allday_event(e, max_hours[1]))

get_source_events(all_events, max_hours) ==
    filter_allday_events(UniqueEvents(<< >>, all_events), max_hours)

\* the pulls a routing makes; a pull that is not made returns nothing
PullsOf(source_routing) ==
    [Work : IF 1 \in Range(source_routing.caldav_indices) THEN PullLists ELSE {<< >>},
     Home : IF 2 \in Range(source_routing.caldav_indices) THEN HomePulls ELSE {<< >>}]

InitSources ==
    /\ source = {}
    /\ sync_state = EmptyState
    /\ dest = EmptyDest
    /\ config \in [source_routing : Routings,
                   ignore_allday_events_longer_than_hours : AllDayLimits]
    /\ client = ICloudIntegrationMethods
    /\ pc = "idle"
    /\ last = NoLast

GetSourceEvents ==
    /\ pc = "idle"
    /\ \E pulls \in PullsOf(config.source_routing), fallback_reads \in ReadPairs, eventkit_reads \in ReadPairs :
         \E all_events \in {AllEvents(config.source_routing, pulls, fallback_reads, eventkit_reads)} :
           /\ pc' = "done"
           /\ last' = [op |-> "get_source_events",
                       caldav_events |-> get_caldav_events(pulls, config.source_routing.caldav_indices),
                       reads |-> BridgeReads(config.source_routing, pulls, fallback_reads, eventkit_reads),
                       all_events |-> all_events,
                       ret |-> get_source_events(all_events,
                                   config.ignore_allday_events_longer_than_hours)]
    /\ UNCHANGED <<source, sync_state, dest, config, client>>

SpecSources == InitSources /\ [][GetSourceEvents]_vars

SourcesPulled == pc = "done" /\ last.op = "get_source_events"

\* position p holds the first pulled event of its stable key
FirstOfKey(all_events, p) ==
    /\ all_events[p].stable_key # NoKey
    /\ \A q \in 1..(p - 1) : all_events[q].stable_key # all_events[p].stable_key

\* C20: the list get_source_events returns has pairwise distinct stable keys;
\* every returned event is, unchanged, the first pulled event of its key in
\* source order (CalDAV or its fallback substitute, then EventKit); and the
\* first event of a key is returned unless the all-day filter ignores it
C20_FirstSeenWins ==
    SourcesPulled =>
      /\ \A i, j \in 1..Len(last.ret) :
           last.ret[i].stable_key = last.ret[j].stable_key => i = j
      /\ \A i \in 1..Len(last.ret) :
           \E p \in 1..Len(last.all_events) :
             /\ last.all_events[p] = last.ret[i]
             /\ FirstOfKey(last.all_events, p)
      /\ \A p \in 1..Len(last.all_events) :
           (/\ FirstOfKey(last.all_events, p)
            /\ \/ config.ignore_allday_events_longer_than_hours = NoLimit
               \/ ~_should_ignore_allday_event(last.all_events[p],
                                               config.ignore_allday_events_longer_than_hours[1]))
             => last.all_events[p] \in Range(last.ret)

\* two events of one CalDAV calendar share a key and differ in title: the
\* first is returned, the second is not
C20_Witness ==
    /\ SourcesPulled
    /\ \E p, q \in 1..Len(last.all_events) :
         /\ p < q
         /\ last.all_events[p].stable_key = last.all_events[q].stable_key
         /\ last.all_events[p].stable_key # NoKey
         /\ last.all_events[p].summary # last.all_events[q].summary
         /\ last.all_events[p].source_calendar = "Work"
         /\ last.all_events[q].source_calendar = "Work"
         /\ FirstOfKey(last.all_events, p)
         /\ last.all_events[p] \in Range(last.ret)
         /\ last.all_events[q] \notin Range(last.ret)

\* the days an all-day event covers: the days from its start up to, and not
\* including, its end (DTEND of an all-day event is the day after its last
\* day; a midnight end is the end of the day before); one day without an end
SpannedDays(event) ==
    IF event.end = None THEN 1 ELSE event.end[1].day - event.start[1].day

\* the filter has to drop the event
LongAllDay(event, max_hours) ==
    /\ max_hours # NoLimit
    /\ _is_allday_event(event)
    /\ SpannedDays(event) * 24 > max_hours[1]

\* C30: the all-day filter runs on the deduplicated list; it drops an event
\* if and only if a threshold is configured, the event is all-day and its
\* N days, counted as N*24 hours, are strictly more than the threshold; timed
\* events, and all events without a threshold, are kept in their order
C30_AllDayFilter ==
    SourcesPulled =>
      last.ret = SelectSeq(UniqueEvents(<< >>, last.all_events),
                           LAMBDA e : ~LongAllDay(e, config.ignore_allday_events_longer_than_hours))

\* the filter has run on an all-day event of one day with dates at both ends
C30_OneDayReached ==
    /\ SourcesPulled
    /\ config.ignore_allday_events_longer_than_hours # NoLimit
    /\ \E p \in 1..Len(last.all_events) :
         /\ FirstOfKey(last.all_events, p)
         /\ ~IsDateTime(last.all_events[p].start[1])
         /\ SpannedDays(last.all_events[p]) = 1

\* the events the bridge returned to a call: those of its last read
LocalStoreEvents(call) ==
    LET of_call == SelectSeq(last.reads, LAMBDA r : r.call = call)
    IN  IF of_call = << >> THEN << >> ELSE of_call[Len(of_call)].events

\* the selected CalDAV calendars that yielded fewer events than the threshold
SparseCalendars ==
    { Calendars[i] : i \in { j \in Range(config.source_routing.caldav_indices) :
        Len(SelectSeq(last.caldav_events,
                      LAMBDA e : e.source_calendar = Calendars[j])) < FallbackThreshold } }

\* the events without the name of the calendar they came from
Untagged(events) == Tagged(events, "")

\* what the CalDAV part of the pulled events has to be
AfterFallback ==
    IF /\ config.source_routing.fallback_on_404
       /\ SparseCalendars # {}
       /\ LocalStoreEvents("fallback") # << >>
    THEN SelectSeq(last.caldav_events, LAMBDA e : e.source_calendar \notin SparseCalendars)
           \o LocalStoreEvents("fallback")
    ELSE last.caldav_events

\* C31: with fallback enabled, the calendars that yielded fewer than 5
\* events are pulled from the local store; if it returns an event, the CalDAV
\* events of those calendars are replaced by the local-store events and the
\* events of the other calendars stay; if it returns none, or fallback is
\* disabled, the CalDAV events are kept unchanged
C31_FallbackPolicy ==
    SourcesPulled =>
      /\ (\E i \in 1..Len(last.reads) : last.reads[i].call = "fallback")
           <=> (config.source_routing.fallback_on_404 /\ SparseCalendars # {})
      /\ Len(last.all_events) >= Len(AfterFallback)
      /\ Untagged(SubSeq(last.all_events, 1, Len(AfterFallback))) = Untagged(AfterFallback)

\* the local store returned an event for a calendar that yielded too few
C31_LocalStoreAnswered ==
    /\ SourcesPulled
    /\ config.source_routing.fallback_on_404
    /\ SparseCalendars # {}
    /\ LocalStoreEvents("fallback") # << >>

-----------------------------------------------------------------------------
(* Stable keys: parse_ical_event and _convert_eventkit_event_to_dict *)

\* datetime.isoformat(): text, as the list of its parts
isoformat(dt) ==
    <<ToString(dt.day), "T", ToString(dt.hour), ":", ToString(dt.minute), ":",
      ToString(dt.second)>>

\* an hour added on the clock face only: the day stays
PlusOneHour_NoCarry(dt) == [dt EXCEPT !.hour = (dt.hour + 1) % 24]

\* dt + timedelta(hours=1)
PlusOneHour(dt) ==
    IF dt.hour = 23 THEN [dt EXCEPT !.day = dt.day + 1, !.hour = 0]
    ELSE [dt EXCEPT !.hour = dt.hour + 1]

\* the minute moved to the nearest multiple of five by its ones digit
_normalize_minutes_global(dt) ==
    LET current_minute == dt.minute
        minute_ones_digit == current_minute % 10
    IN  IF minute_ones_digit <= 2
        THEN [dt EXCEPT !.minute = (current_minute \div 10) * 10, !.second = 0]
        ELSE IF minute_ones_digit <= 7
        THEN [dt EXCEPT !.minute = (current_minute \div 10) * 10 + 5, !.second = 0]
        ELSE IF ((current_minute \div 10) + 1) * 10 >= 60
        THEN PlusOneHour([dt EXCEPT !.minute = 0, !.second = 0])
        ELSE [dt EXCEPT !.minute = ((current_minute \div 10) + 1) * 10, !.second = 0]

\* recurrence markers: occurrences of a series, on different days
Markers == { DateTime(0, 10, 3, 0), DateTime(1, 10, 3, 0), DateTime(2, 23, 58, 0) }

\* uids, as text: two plain ones, and one that spells another uid's instance key
Uids == { <<"u">>, <<"v">>, <<"u", "#">> \o isoformat(DateTime(0, 10, 3, 0)) }

\* the VEVENT components a CalDAV search returns
Components == [UID : Uids, RECURRENCE_ID : {None} \cup { Some(m) : m \in Markers }]

\* the stable key parse_ical_event gives a component
CalDAVKey(component) ==
    LET uid == component.UID
        recurrence_id == component.RECURRENCE_ID
    IN  IF recurrence_id # None
        THEN uid \o <<"#">> \o isoformat(recurrence_id[1])
        ELSE uid

\* calendarItemIdentifier of the item with this eventIdentifier
ItemIdentifier(uid) == <<"item">> \o uid

\* the events EventKit returns: an item keeps one calendarItemIdentifier, or
\* reports none
EKEvents ==
    { e \in [eventIdentifier : Uids,
             calendarItemIdentifier : {None} \cup { Some(ItemIdentifier(u)) : u \in Uids },
             hasRecurrenceRules : BOOLEAN,
             occurrenceDate : {None} \cup { Some(m) : m \in Markers }] :
        e.calendarItemIdentifier \in {None, Some(ItemIdentifier(e.eventIdentifier))} }

\* what uuid.uuid4().hex can return
Uuids == { <<"MAC:", "x1">>, <<"MAC:", "x2">> }

\* the UTC offset of the machine's local time zone, in hours
LocalOffsets == {0, 1}

\* _convert_nsdate_to_datetime: the instant as naive local time, minutes
\* normalised
_convert_nsdate_to_datetime(nsdate, utcoffset) ==
    _normalize_minutes_global(IF utcoffset = 1 THEN PlusOneHour(nsdate) ELSE nsdate)

\* the stable key _convert_eventkit_event_to_dict gives an event; uuid is
\* what uuid4 returns in this call, utcoffset the local time zone
EventKitKey(ek_event, uuid, utcoffset) ==
    LET uid == ek_event.eventIdentifier
        stable_key ==
            IF ek_event.calendarItemIdentifier # None
            THEN ek_event.calendarItemIdentifier[1]
            ELSE uuid
    IN  IF ek_event.hasRecurrenceRules /\ ek_event.occurrenceDate # None
        THEN uid \o <<"#">> \o isoformat(_convert_nsdate_to_datetime(ek_event.occurrenceDate[1], utcoffset))
        ELSE stable_key

\* two occurrences one pull returns: two components, or two EventKit events
\* of which those of one item agree on what the item has
\* the EventKit events that can come with event a: those of the same item
\* agree on what the item has
PulledWith(a) ==
    { e \in EKEvents :
        e.eventIdentifier = a.eventIdentifier
          => /\ e.calendarItemIdentifier = a.calendarItemIdentifier
             /\ e.hasRecurrenceRules = a.hasRecurrenceRules }

\* two occurrences one pull returns: two components, or two EventKit events
PulledPairs ==
    { [kind |-> "caldav", a |-> a, b |-> b] : a \in Components, b \in Components }
    \cup UNION { { [kind |-> "eventkit", a |-> a, b |-> b] : b \in PulledWith(a) } :
                   a \in EKEvents }

InitKeys ==
    /\ source \in PulledPairs
    /\ sync_state = EmptyState
    /\ dest = EmptyDest
    /\ config \in Configs
    /\ client = ICloudIntegrationMethods
    /\ pc = "idle"
    /\ last = NoLast

\* one pull converts both occurrences; two calls of uuid4 differ
ParsePair ==
    /\ pc = "idle"
    /\ \E u1 \in Uuids, tz \in LocalOffsets :
       \E u2 \in Uuids \ {u1} :
         /\ pc' = "done"
         /\ last' = [op |-> "parse_pair",
                     keys |-> IF source.kind = "caldav"
                              THEN <<CalDAVKey(source.a), CalDAVKey(source.b)>>
                              ELSE <<EventKitKey(source.a, u1, tz),
                                     EventKitKey(source.b, u2, tz)>>]
    /\ UNCHANGED <<source, sync_state, dest, config, client>>

\* the uid and the recurrence marker of a pulled occurrence
OccurrenceOf(kind, x) ==
    IF kind = "caldav" THEN <<x.UID, x.RECURRENCE_ID>>
    ELSE <<x.eventIdentifier, IF x.hasRecurrenceRules THEN x.occurrenceDate ELSE None>>

PairParsed == pc = "done" /\ last.op = "parse_pair"

\* C21: two pulled occurrences that differ in uid or in recurrence marker
\* get different stable keys
C21_KeysNeverCollide ==
    (PairParsed /\ OccurrenceOf(source.kind, source.a) # OccurrenceOf(source.kind, source.b))
      => last.keys[1] # last.keys[2]

\* the event dict of a pulled occurrence with this stable key
KeyedEvent(k) ==
    [stable_key |-> k, uid |-> k, summary |-> "a", body |-> 0,
     hash |-> generate_event_hash(k, "a", 0)]

\* two cycles pull the same unchanged occurrence: the first writes its ledger
\* entry, the second compares what it pulls with that ledger; the time zone
\* of the machine and what uuid4 returns are those of each cycle
PullTwice ==
    /\ pc = "idle"
    /\ \E u1 \in Uuids, tz1 \in LocalOffsets, tz2 \in LocalOffsets :
       \E u2 \in Uuids \ {u1} :
       \E k1 \in {IF source.kind = "caldav" THEN CalDAVKey(source.a)
                  ELSE EventKitKey(source.a, u1, tz1)},
          k2 \in {IF source.kind = "caldav" THEN CalDAVKey(source.a)
                  ELSE EventKitKey(source.a, u2, tz2)} :
       \E st \in {Upsert(EmptyState, k1, Entry(KeyedEvent(k1)))} :
         /\ pc' = "done"
         /\ last' = [op |-> "pull_twice", keys |-> <<k1, k2>>,
                     added |-> AddedEvents(<<KeyedEvent(k2)>>, st),
                     gone |-> { k \in DOMAIN st : k \notin SeqKeys(<<KeyedEvent(k2)>>) }]
    /\ UNCHANGED <<source, sync_state, dest, config, client>>

SpecKeys == InitKeys /\ [][ParsePair \/ PullTwice]_vars

PulledTwice == pc = "done" /\ last.op = "pull_twice"

\* C22: an unchanged occurrence pulled in two cycles gets the same stable key
\* both times, and the second cycle reports it neither added nor deleted
C22_KeyStableAcrossCycles ==
    PulledTwice =>
      /\ last.keys[1] = last.keys[2]
      /\ last.added = << >>
      /\ last.gone = {}

-----------------------------------------------------------------------------
(* Claims about the cycle as a whole *)

\* a sync_calendars run that called sync_to_icloud with something to do
SyncToICloudCalled ==
    /\ CycleRan
    /\ last.path \notin {"no_events", "skipped_timeout", "skipped_too_many_missing",
                         "no_changes"}

\* C23: when the destination object lacks a required operation, a cycle that
\* has changes to push returns false, has invoked no create, delete or clear
\* on the destination, leaves the sync state and the destination as they
\* were, and runs neither verification nor force-resync
C23_MissingOperationFailsEarly ==
    (SyncToICloudCalled /\ ~(required_methods \subseteq client))
      => /\ last.ret = FALSE
         /\ NoMutationCalled
         /\ sync_state = last.pre_state
         /\ dest = last.pre_dest
         /\ last.verify = << >>

C23_Witness ==
    /\ SyncToICloudCalled
    /\ ~(required_methods \subseteq client)
    /\ last.changes.added # << >>
    /\ last.ret = FALSE
    /\ last.calls # << >>

-----------------------------------------------------------------------------
(* load_sync_state: the persisted ledger, read at construction *)

\* an entry as older versions wrote it: hash and last_sync only
LegacyEntry(ev) == [hash |-> ev.hash]

\* the events object of a state file, in file order: order lists the keys,
\* events maps them to their entries
StateFile(evs, legacy) ==
    [order |-> [i \in 1..Len(evs) |-> evs[i].stable_key],
     events |-> [k \in SeqKeys(evs) |->
                   LET ev == CHOOSE e \in Range(evs) : e.stable_key = k
                   IN  IF legacy THEN LegacyEntry(ev) ELSE Entry(ev)]]

\* the two orders of a list of at most two events
Orders(evs) == {evs, [i \in 1..Len(evs) |-> evs[Len(evs) + 1 - i]]}

\* the state files a run of this program or of an older version leaves: all
\* entries are written by one version
StateFiles ==
    UNION { { StateFile(evs, legacy) : evs \in Orders(EventList(S)), legacy \in BOOLEAN } :
            S \in SourceSets }

\* what is on disk: no file, or a state file
Persisted == {None} \cup { Some(f) : f \in StateFiles }

\* a loader that returns what the file holds
load_sync_state_AsIs(persisted) ==
    IF persisted = None THEN EmptyState ELSE persisted[1].events

\* load_sync_state: the events map the constructor keeps
load_sync_state(persisted) ==
    IF persisted = None THEN EmptyState
    ELSE LET state == persisted[1]
         IN  IF state.order # << >> /\ "summary" \notin DOMAIN state.events[state.order[1]]
             THEN EmptyState
             ELSE state.events

InitLoad ==
    /\ source \in SourceSets
    /\ sync_state \in Persisted
    /\ dest = EmptyDest
    /\ config \in Configs
    /\ client = ICloudIntegrationMethods
    /\ pc = "idle"
    /\ last = NoLast

\* the constructor loads the state; the next cycle compares the source events
\* with it
LoadSyncState ==
    /\ pc = "idle"
    /\ \E state \in {load_sync_state(sync_state)} :
         /\ sync_state' = state
         /\ pc' = "done"
         /\ last' = [op |-> "load_sync_state", file |-> sync_state,
                     added |-> AddedEvents(EventList(source), state)]
    /\ UNCHANGED <<source, dest, config, client>>

SpecLoad == InitLoad /\ [][LoadSyncState]_vars

StateLoaded == pc = "done" /\ last.op = "load_sync_state"

\* the file holds an entry without the summary field
HasLegacyEntry(persisted) ==
    /\ persisted # None
    /\ \E k \in DOMAIN persisted[1].events : "summary" \notin DOMAIN persisted[1].events[k]

-----------------------------------------------------------------------------
(* C25: the result of a cycle *)

\* one of the per-event operations of sync_to_icloud succeeded: a create of
\* the add, modify or recovery loop, or a delete of the delete loop
SomeMutationSucceeded ==
    \/ \E j \in SyncSegment :
         last.calls[j].op = "create_event" /\ last.calls[j].ret = "true"
    \/ \E r \in Range(last.changes.deleted) : DeleteSucceeded(r.stable_key)

\* the cycle found nothing to do
NothingToDo == CycleRan /\ last.path \in {"no_events", "no_changes"}

\* C25 as stated: a cycle with nothing to do returns true, and a cycle that
\* attempted mutations returns true if and only if one of them succeeded
C25_ResultIffSomeSucceeded ==
    /\ NothingToDo => last.ret = TRUE
    /\ Reconciled => (last.ret = TRUE <=> SomeMutationSucceeded)

\* C25, amended: a cycle with nothing to do returns true; a cycle whose
\* attempted mutations all failed returns false without verifying; a cycle of
\* which a mutation succeeded verifies, and returns true if the verification
\* passes and the result of force_resync if it fails
C25_ResultAfterVerification ==
    /\ NothingToDo => last.ret = TRUE
    /\ (Reconciled /\ ~SomeMutationSucceeded)
         => (last.ret = FALSE /\ last.path = "sync_failed" /\ last.verify = << >>)
    /\ (Reconciled /\ SomeMutationSucceeded)
         => /\ last.verify # << >>
            /\ last.ret = last.verify[Len(last.verify)].ret
            /\ last.verify[1].ret => Len(last.verify) = 1
            /\ ~last.verify[1].ret
                 => (Len(last.verify) = 2 /\ last.path \in {"force_resync_passed",
                                                            "force_resync_failed"})

\* a mutation succeeded, the verification failed and so did force_resync:
\* the cycle returns false
C25_Witness ==
    /\ Reconciled
    /\ SomeMutationSucceeded
    /\ last.path = "force_resync_failed"
    /\ last.ret = FALSE

-----------------------------------------------------------------------------
(* Minute rounding: _normalize_minutes_global and ICloudIntegration._normalize_minutes *)

\* the last day of the timestamps rounded
MaxDay == 1

\* the timestamps: every minute of the days, at three seconds values
DateTimes ==
    { DateTime(d, h, m, sec) : d \in 0..MaxDay, h \in 0..23, m \in 0..59, sec \in {0, 1, 59} }

\* ICloudIntegration._normalize_minutes: the method the destination client
\* applies to start and end before it creates an event
_normalize_minutes(dt) ==
    LET current_minute == dt.minute
        minute_ones_digit == current_minute % 10
    IN  IF minute_ones_digit <= 2
        THEN [dt EXCEPT !.minute = (current_minute \div 10) * 10, !.second = 0]
        ELSE IF minute_ones_digit <= 7
        THEN [dt EXCEPT !.minute = (current_minute \div 10) * 10 + 5, !.second = 0]
        ELSE IF ((current_minute \div 10) + 1) * 10 >= 60
        THEN PlusOneHour([dt EXCEPT !.minute = 0, !.second = 0])
        ELSE [dt EXCEPT !.minute = ((current_minute \div 10) + 1) * 10, !.second = 0]

InitRound ==
    /\ source \in DateTimes
    /\ sync_state = EmptyState
    /\ dest = EmptyDest
    /\ config \in Configs
    /\ client = ICloudIntegrationMethods
    /\ pc = "idle"
    /\ last = NoLast

\* parse_ical_event rounds the timestamp, and create_event rounds what it gets
NormalizeMinutes ==
    /\ pc = "idle"
    /\ pc' = "done"
    /\ last' = [op |-> "normalize_minutes",
                parsed |-> _normalize_minutes_global(source),
                created |-> _normalize_minutes(_normalize_minutes_global(source)),
                direct |-> _normalize_minutes(source)]
    /\ UNCHANGED <<source, sync_state, dest, config, client>>

SpecRound == InitRound /\ [][NormalizeMinutes]_vars

Rounded == pc = "done" /\ last.op = "normalize_minutes"

\* what the rule of the ones digit gives for timestamp dt
RoundedByOnesDigit(dt) ==
    LET ones == dt.minute % 10
        ten == dt.minute - ones
    IN  IF ones \in 0..2 THEN DateTime(dt.day, dt.hour, ten, 0)
        ELSE IF ones \in 3..7 THEN DateTime(dt.day, dt.hour, ten + 5, 0)
        ELSE IF ten + 10 < 60 THEN DateTime(dt.day, dt.hour, ten + 10, 0)
        ELSE IF dt.hour < 23 THEN DateTime(dt.day, dt.hour + 1, 0, 0)
        ELSE DateTime(dt.day + 1, 0, 0, 0)

\* C26: the rounded timestamp has seconds 0 and a minute that is a multiple
\* of five; it is the one the ones digit of the minute decides (0-2 down to
\* the ten, 3-7 to ten plus five, 8-9 up to the next ten, into the next hour
\* at :58 and :59 and into the next day at 23:58 and 23:59); rounding a
\* rounded timestamp changes nothing; both implementations agree
C26_MinuteRounding ==
    Rounded =>
      /\ last.parsed.second = 0
      /\ last.parsed.minute % 5 = 0
      /\ last.parsed.minute \in 0..55
      /\ last.parsed.hour \in 0..23
      /\ last.parsed = RoundedByOnesDigit(source)
      /\ last.created = last.parsed
      /\ last.direct = last.parsed

\* 23:58 of the first day becomes 00:00 of the second
C26_Witness ==
    /\ Rounded
    /\ source = DateTime(0, 23, 58, 59)
    /\ last.parsed = DateTime(1, 0, 0, 0)
    /\ last.created = DateTime(1, 0, 0, 0)

-----------------------------------------------------------------------------
(* C27: the phases of a cycle, read from its call log *)

\* the positions of the calls of one operation in the log of the run
CallsOf(op) == { i \in 1..Len(last.calls) : last.calls[i].op = op }

\* the cycle is skipped: the listing of the detection timed out, or the
\* safety valve tripped
Skipped ==
    /\ CycleRan
    /\ \/ last.listing.kind = "TIMEOUT"
       \/ last.detection.kind = "TOO_MANY_MISSING"

\* the log is: the listing of the detection (if detection is on), the calls of
\* sync_to_icloud, the listing of the verification, and after a failed
\* verification one clear, the creates of the rebuild and one more listing
PhasesInOrder ==
    LET first == IF last.listing.kind = "off" THEN 1 ELSE 2
        n == Len(last.calls)
        reconciled == { i \in first..n : \A j \in first..i :
                          last.calls[j].op \in Mutations \ {"clear_all_events"} }
        v == first + Cardinality(reconciled)
    IN  /\ last.listing.kind # "off"
             => (n >= 1 /\ last.calls[1].op = "get_existing_events")
        /\ last.verify = << >> => n = v - 1
        /\ last.verify # << >>
             => /\ reconciled # {}
                /\ n >= v /\ last.calls[v].op = "get_existing_events"
                /\ last.verify[1].ret => (Len(last.verify) = 1 /\ n = v)
                /\ ~last.verify[1].ret
                     => /\ Len(last.verify) = 2
                        /\ n >= v + 2
                        /\ last.calls[v + 1].op = "clear_all_events"
                        /\ \A i \in (v + 2)..(n - 1) : last.calls[i].op = "create_event"
                        /\ last.calls[n].op = "get_existing_events"

\* C27: a sync_calendars run ends with a boolean result after a bounded number
\* of destination calls, made in the order detection, reconciliation,
\* verification; force_resync is entered at most once, and exactly when the
\* verification of the cycle failed; a skipped cycle returns true with no
\* reconciliation, no verification and no force_resync
C27_PhasesInOrder ==
    CycleRan =>
      /\ last.ret \in BOOLEAN
      /\ Len(last.calls) <= 3 + 4 * Cardinality(Keys) + Cardinality(source)
      /\ PhasesInOrder
      /\ Cardinality(CallsOf("clear_all_events")) <= 1
      /\ CallsOf("clear_all_events") # {}
           <=> (last.verify # << >> /\ ~last.verify[1].ret)
      /\ Skipped
           => /\ last.ret = TRUE
              /\ NoMutationCalled
              /\ last.verify = << >>
              /\ Len(last.calls) = 1
              /\ sync_state = last.pre_state
              /\ dest = last.pre_dest

\* a cycle that went through every phase and force_resync
C27_Witness ==
    /\ CycleRan
    /\ last.listing.kind = "list"
    /\ last.path = "force_resync_passed"
    /\ Cardinality(CallsOf("clear_all_events")) = 1
    /\ Len(last.verify) = 2

\* a skipped cycle
C27_SkipReached == Skipped /\ last.listing.kind = "TIMEOUT" /\ last.changes.added # << >>

-----------------------------------------------------------------------------
(* verify_sync on every source set, ledger and destination of the universe *)

InitVerify ==
    /\ source \in SourceSets \ {{}}
    /\ sync_state \in SyncStates
    /\ dest \in { MirrorOf(S) : S \in SourceSets }
    /\ config \in Configs
    /\ client = ContractMethods
    /\ pc = "idle"
    /\ last = NoLast

\* one call of verify_sync: it lists the destination itself
VerifySync ==
    /\ pc = "idle"
    /\ \E outcome \in ListOutcomes :
         \E icloud_events \in {get_existing_events(dest, outcome)} :
           \E v \in {verify_sync(World(sync_state, dest,
                                       <<Call("get_existing_events", "", ListRet(outcome))>>),
                                 EventList(source), icloud_events, config)} :
             /\ sync_state' = v.w.st
             /\ pc' = "done"
             /\ last' = [NoLast EXCEPT !.op = "verify_sync", !.ret = v.ret,
                                       !.calls = v.w.calls, !.pre_state = sync_state,
                                       !.pre_dest = dest,
                                       !.verify = <<Verified(icloud_events, v)>>]
    /\ UNCHANGED <<source, dest, config, client>>

SpecVerify == InitVerify /\ [][VerifySync]_vars

VerifyRan == pc = "done" /\ last.op = "verify_sync"

\* C28: a call of verify_sync leaves in the sync state exactly the entries
\* whose key is a stable key of the current source events, unchanged, whether
\* it returns true or false
C28_OrphansPruned ==
    VerifyRan =>
      /\ DOMAIN sync_state = DOMAIN last.pre_state \cap KeysOf(source)
      /\ \A k \in DOMAIN sync_state : sync_state[k] = last.pre_state[k]

-----------------------------------------------------------------------------
(* C29: sync_to_icloud attempts every item *)

\* the calls sync_to_icloud made, in order
SegmentCalls ==
    LET first == IF last.listing.kind = "off" THEN 1 ELSE 2
    IN  [i \in 1..Cardinality(SyncSegment) |-> last.calls[first - 1 + i]]

\* those calls without the deletes by title, as <<operation, key>>
Attempts ==
    LET primary == SelectSeq(SegmentCalls, LAMBDA c : c.op # "delete_event_by_summary")
    IN  [i \in 1..Len(primary) |-> <<primary[i].op, primary[i].arg>>]

\* one create per added event, one delete by marker and one create per
\* modified event, one delete by marker per deleted record, one create per
\* recovery event, in the order of the four lists
ExpectedAttempts ==
    LET a == last.changes.added
        m == last.changes.modified
        d == last.changes.deleted
        r == last.detection.events
    IN  [i \in 1..Len(a) |-> <<"create_event", a[i].stable_key>>]
        \o [i \in 1..(2 * Len(m)) |->
              IF i % 2 = 1 THEN <<"delete_event_by_sync_uid", m[(i + 1) \div 2].stable_key>>
              ELSE <<"create_event", m[i \div 2].stable_key>>]
        \o [i \in 1..Len(d) |-> <<"delete_event_by_sync_uid", d[i].stable_key>>]
        \o [i \in 1..Len(r) |-> <<"create_event", r[i].stable_key>>]

\* a call of sync_to_icloud for this key returned failure
KeyFailed(k) ==
    \E j \in SyncSegment : last.calls[j].arg = k /\ last.calls[j].ret = "false"

\* the state sync_to_icloud leaves when every call succeeds
StateIfAllSucceed ==
    sync_to_icloud(World(last.pre_state, last.pre_dest, << >>), last.changes.added,
                   last.changes.modified, last.changes.deleted, last.detection.events,
                   ContractMethods, SyncOutcome({})).w.st

\* C29: where sync_to_icloud runs its loops, it attempts every added,
\* modified, deleted and recovery item, in the order of these four lists,
\* whatever the earlier calls returned; and the state entry of every key none
\* of whose calls failed is what it is when no call fails at all
C29_NoBatchAbort ==
    Reconciled =>
      /\ Attempts = ExpectedAttempts
      /\ \A k \in Keys :
           ~KeyFailed(k)
             => /\ k \in DOMAIN last.synced <=> k \in DOMAIN StateIfAllSucceed
                /\ k \in DOMAIN last.synced => last.synced[k] = StateIfAllSucceed[k]

\* the first of two added events fails and the second is created and entered
C29_Witness ==
    /\ Reconciled
    /\ Len(last.changes.added) = 2
    /\ KeyFailed(last.changes.added[1].stable_key)
    /\ Created(last.changes.added[2].stable_key)
    /\ last.changes.added[1].stable_key \notin DOMAIN last.synced
    /\ last.changes.added[2].stable_key \in DOMAIN last.synced

-----------------------------------------------------------------------------
(* The sync marker in the description: parse_ical_event and                 *)
(* _convert_eventkit_event_to_dict                                          *)

\* most pieces of a source description
MaxText == 4

\* the marker text of a stable key
SyncMarker(stable_key) == IF stable_key = "u1" THEN "[SYNC_UID:u1]" ELSE "[SYNC_UID:u2]"

\* a text is the list of its pieces: a word, white space, or a marker
TextPieces == {"w", " ", SyncMarker("u1"), SyncMarker("u2")}

\* the descriptions a source event can carry
RawDescriptions == UNION { [1..n -> TextPieces] : n \in 0..MaxText }

\* ' '.join(s.split()) on a stripped text: white space is folded
RECURSIVE FoldSpaces(_)
FoldSpaces(s) ==
    IF s = << >> THEN << >>
    ELSE IF Head(s) = " " /\ (Len(s) = 1 \/ s[2] = " ") THEN FoldSpaces(Tail(s))
    ELSE <<Head(s)>> \o FoldSpaces(Tail(s))

_norm_text(s) ==
    LET folded == FoldSpaces(s)
    IN  IF folded # << >> /\ Head(folded) = " " THEN Tail(folded) ELSE folded

\* `sub in text`
InText(sub, text) ==
    \E i \in 0..(Len(text) - Len(sub)) : SubSeq(text, i + 1, i + Len(sub)) = sub

\* the description of the event dict, built from the source's description
Description(raw, stable_key) ==
    LET description == _norm_text(raw)
        sync_marker == <<" ", SyncMarker(stable_key)>>
    IN  IF description # << >>
        THEN IF ~InText(sync_marker, description)
             THEN description \o sync_marker
             ELSE description
        ELSE <<SyncMarker(stable_key)>>

InitMarker ==
    /\ source \in RawDescriptions
    /\ sync_state = EmptyState
    /\ dest = EmptyDest
    /\ config \in Configs
    /\ client = ICloudIntegrationMethods
    /\ pc = "idle"
    /\ last = NoLast

\* the event is parsed, and the description it got is parsed once more
BuildDescription ==
    /\ pc = "idle"
    /\ pc' = "done"
    /\ last' = [op |-> "description",
                once |-> Description(source, "u1"),
                twice |-> Description(Description(source, "u1"), "u1")]
    /\ UNCHANGED <<source, sync_state, dest, config, client>>

SpecMarker == InitMarker /\ [][BuildDescription]_vars

DescriptionBuilt == pc = "done" /\ last.op = "description"

\* how often a piece occurs in a text
Occurrences(text, piece) == Cardinality({ i \in 1..Len(text) : text[i] = piece })

\* C32: a source description that already contains the marker of the event's
\* stable key, the marker alone included, gets a description with exactly one
\* occurrence of the marker; and building the description from a built
\* description gives that description again
C32_MarkerAppendIdempotent ==
    DescriptionBuilt =>
      /\ Occurrences(source, SyncMarker("u1")) = 1
           => Occurrences(last.once, SyncMarker("u1")) = 1
      /\ last.twice = last.once

\* the source description is the marker alone
C32_MarkerAloneReached ==
    /\ DescriptionBuilt
    /\ source = <<SyncMarker("u1")>>

-----------------------------------------------------------------------------
(* The content hash: generate_event_hash on full event dicts *)

\* the event dicts of one logical event that two pulls can give
HashedEvents ==
    [stable_key : {"u1"},
     summary : {<<"w">>, <<"w", " ", "w">>},
     description : {<<"w", " ", SyncMarker("u1")>>},
     location : {<< >>},
     rrule : {""},
     exdate : {""},
     start : {None, Some(Date(0)), Some(DateTime(0, 10, 0, 0))},
     end : {Some(DateTime(0, 11, 0, 0))},
     recurrence_id : {None, Some("r1")},
     created : {0, 1},
     last_modified : {0, 1},
     raw_data : {"ics1", "ics2"},
     source_calendar : {"Work", "Home"}]

\* the time as text: a date is marked all-day, a naive datetime is taken as UTC
_to_utc_iso(dt) ==
    IF dt = None THEN << >>
    ELSE IF ~IsDateTime(dt[1]) THEN <<ToString(dt[1].day), "|ALLDAY">>
    ELSE isoformat(dt[1]) \o <<"+00:00">>

\* fields that take the modification time in
hash_fields_WithLastModified(event) ==
    <<event.stable_key, _norm_text(event.summary), event.last_modified>>

\* the fields that are joined and digested
hash_fields(event) ==
    <<event.stable_key, _norm_text(event.summary), _norm_text(event.description),
      _norm_text(event.location), event.rrule, event.exdate,
      _to_utc_iso(event.start), _to_utc_iso(event.end)>>
      \o (IF event.recurrence_id # None THEN <<event.recurrence_id[1]>> ELSE << >>)

\* the event dict with its hash, as parse_ical_event returns it
Hashed(event) ==
    [stable_key |-> event.stable_key, uid |-> event.stable_key,
     summary |-> event.summary, hash |-> hash_fields(event)]

InitHash ==
    /\ source \in HashedEvents \X HashedEvents
    /\ sync_state = EmptyState
    /\ dest = EmptyDest
    /\ config \in {c \in Configs : c.verify_threshold = 50}
    /\ client = ICloudIntegrationMethods
    /\ pc = "idle"
    /\ last = NoLast

\* the first copy is synced, then the second copy is pulled and compared
HashTwoCopies ==
    /\ pc = "idle"
    /\ pc' = "done"
    /\ \E synced \in {RebuildState(EmptyState, <<Hashed(source[1])>>)} :
         last' = [op |-> "generate_event_hash",
                  hashes |-> <<Hashed(source[1]).hash, Hashed(source[2]).hash>>,
                  modified |-> ModifiedEvents(<<Hashed(source[2])>>, synced)]
    /\ UNCHANGED <<source, sync_state, dest, config, client>>

SpecHash == InitHash /\ [][HashTwoCopies]_vars

TwoCopiesHashed == pc = "done" /\ last.op = "generate_event_hash"

\* the fields the hash may depend on
ContentFields ==
    {"stable_key", "summary", "description", "location", "rrule", "exdate",
     "start", "end", "recurrence_id"}

SameContent(e1, e2) == \A f \in ContentFields : e1[f] = e2[f]

\* C33: two copies of an event that agree on stable_key, summary,
\* description, location, rrule, exdate, start, end and recurrence_id have the
\* same hash, whatever their created, last_modified, raw data and source
\* calendar are, and the second copy is then not in the modified set
C33_HashStability ==
    (TwoCopiesHashed /\ SameContent(source[1], source[2])) =>
      /\ last.hashes[1] = last.hashes[2]
      /\ last.modified = << >>

\* two copies with the same content that differ in all four other fields
C33_Witness ==
    /\ TwoCopiesHashed
    /\ SameContent(source[1], source[2])
    /\ source[1].created # source[2].created
    /\ source[1].last_modified # source[2].last_modified
    /\ source[1].raw_data # source[2].raw_data
    /\ source[1].source_calendar # source[2].source_calendar
    /\ last.modified = << >>

-----------------------------------------------------------------------------
(* Retries: the source pulls and the destination calls together *)

\* the configuration at hand is the one get_source_events reads
SourcesConfigured == "source_routing" \in DOMAIN config

InitRetry == Init \/ InitSources

NextRetry ==
    \/ SourcesConfigured /\ GetSourceEvents
    \/ ~SourcesConfigured /\ Next

SpecRetry == InitRetry /\ [][NextRetry]_vars

\* the reads of the bridge one call of get_events_via_eventkit made
ReadsOf(call) == SelectSeq(last.reads, LAMBDA r : r.call = call)

\* how often a key occurs in a list of events
TimesIn(events, k) == Cardinality({ i \in 1..Len(events) : events[i].stable_key = k })

\* C34: a pull of the local store is read again at most once, and only after
\* a read that returned no events, so that get_source_events reads the local
\* store at most twice; and sync_to_icloud calls create for a key at most
\* once for each of the lists (added, modified, recovery) the key is in,
\* whether the create failed or not
C34_RetryBound ==
    /\ SourcesPulled =>
         /\ \A call \in {"fallback", "eventkit"} :
              /\ Len(ReadsOf(call)) <= 2
              /\ Len(ReadsOf(call)) = 2 => ReadsOf(call)[1].events = << >>
         /\ Len(last.reads) <= 2
    /\ Reconciled =>
         \A k \in Keys :
           Cardinality(SyncCallsOf("create_event", k))
             <= TimesIn(last.changes.added, k) + TimesIn(last.changes.modified, k)
                  + TimesIn(last.detection.events, k)

\* the create of an added event failed and was the only create for its key
C34_Witness ==
    /\ Reconciled
    /\ \E i \in 1..Len(last.changes.added) :
         LET k == last.changes.added[i].stable_key
         IN  /\ Cardinality(SyncCallsOf("create_event", k)) = 1
             /\ \A j \in SyncCallsOf("create_event", k) : last.calls[j].ret = "false"

\* a read of the local store returned no events and was not repeated
C34_EmptyReadReached ==
    /\ SourcesPulled
    /\ \E call \in {"fallback", "eventkit"} :
         /\ Len(ReadsOf(call)) = 1
         /\ ReadsOf(call)[1].events = << >>

-----------------------------------------------------------------------------
(* run_eventkit_batch: the mappings of eventkit_batch_map, one after another *)

\* most mappings of a batch map
MaxBatch == 3

\* time.sleep between two mappings
PauseSeconds == 8

\* a mapping has source_index and target_icloud_calendar_name, or lacks one
BatchMaps == UNION { [1..n -> {"valid", "invalid"}] : n \in 1..MaxBatch }

\* how the processing of a valid mapping ends: a connection fails, the source
\* has no events, the sync returns true or false, or something is raised
MappingOutcomes == {"connect_failed", "no_events", "success", "failure", "exception"}

\* the loop body leaves through `continue`, past the pause at its end
Continues(mapping, force, outcome) ==
    \/ mapping = "invalid"
    \/ force /\ outcome \in {"connect_failed", "no_events"}

\* the loop body reaches the pause and is not at the last mapping
Pauses(mapping, force, outcome, i, total_count) ==
    ~Continues(mapping, force, outcome) /\ i < total_count

\* whether the mapping counts as a success
CountsAsSuccess(mapping, force, outcome) ==
    /\ mapping = "valid"
    /\ \/ outcome = "success"
       \/ outcome = "no_events"

InitBatch ==
    /\ source \in BatchMaps
    /\ sync_state = EmptyState
    /\ dest = EmptyDest
    /\ config \in [force_resync : BOOLEAN]
    /\ client = ICloudIntegrationMethods
    /\ pc = "idle"
    /\ last = [op |-> "run_eventkit_batch", i |-> 0, success_count |-> 0, log |-> << >>]

\* one pass of the loop: mapping i is processed, and the pause is slept
ProcessMapping ==
    /\ pc \in {"idle", "running"}
    /\ \E i \in {last.i + 1}, outcome \in MappingOutcomes :
         \E result \in {IF source[i] = "invalid" THEN "invalid" ELSE outcome} :
           /\ last' = [last EXCEPT
                  !.i = i,
                  !.success_count =
                      IF CountsAsSuccess(source[i], config.force_resync, outcome)
                      THEN last.success_count + 1 ELSE last.success_count,
                  !.log = last.log
                            \o <<[kind |-> "mapping", i |-> i, what |-> result, seconds |-> 0]>>
                            \o (IF Pauses(source[i], config.force_resync, outcome, i, Len(source))
                                THEN <<[kind |-> "pause", i |-> i, what |-> result,
                                        seconds |-> PauseSeconds]>>
                                ELSE << >>)]
           /\ pc' = IF i = Len(source) THEN "done" ELSE "running"
    /\ UNCHANGED <<source, sync_state, dest, config, client>>

SpecBatch == InitBatch /\ [][ProcessMapping]_vars

\* C35: between the processing of two consecutive mappings of the batch map
\* there is a pause of 8 seconds, whatever the outcome of the earlier one; no
\* pause follows the last mapping
C35_InterBatchPause ==
    last.op = "run_eventkit_batch" =>
      /\ \A p, q \in 1..Len(last.log) :
           (/\ last.log[p].kind = "mapping"
            /\ last.log[q].kind = "mapping"
            /\ last.log[q].i = last.log[p].i + 1)
             => \E r \in (p + 1)..(q - 1) :
                  last.log[r].kind = "pause" /\ last.log[r].seconds = 8
      /\ \A r \in 1..Len(last.log) :
           last.log[r].kind = "pause" => last.log[r].i < Len(source)

\* a mapping with an invalid configuration was followed by another mapping
C35_InvalidMappingReached ==
    /\ last.op = "run_eventkit_batch"
    /\ \E p \in 1..Len(last.log) :
         /\ last.log[p].kind = "mapping"
         /\ last.log[p].what = "invalid"
         /\ last.log[p].i < last.i

-----------------------------------------------------------------------------
(* The daemon: class CalSyncDaemon, started as `daemon_manager.py daemon` *)

\* most daemon processes that are started on one project directory
MaxDaemons == 2

\* most cycles the worker of one daemon runs
MaxCycles == 2

Daemons == 1..MaxDaemons

\* the process exists: its main thread has not returned, or its worker
\* thread, which is not a daemon thread, has not ended
Alive(d) ==
    \/ pc[d].main \in {"checked", "running"}
    \/ pc[d].worker \in {"loop", "cycle", "wait"}

\* the PID file names a process that exists and is a daemon
PidFileNamesDaemon == source # None /\ Alive(source[1])

InitDaemon ==
    /\ source = None
    /\ sync_state = EmptyState
    /\ dest = EmptyDest
    /\ config = [d \in Daemons |-> [running |-> FALSE, _stop_requested |-> FALSE]]
    /\ client = ICloudIntegrationMethods
    /\ pc = [d \in Daemons |-> [main |-> "off", worker |-> "none"]]
    /\ last = [op |-> "run_daemon", cycles |-> [d \in Daemons |-> 0]]

\* run_daemon begins: is_running reads the PID file, and removes it if the
\* process it names is gone
is_running(d) ==
    /\ pc[d].main = "off"
    /\ IF PidFileNamesDaemon
       THEN /\ pc' = [pc EXCEPT ![d] = [main |-> "refused", worker |-> "none"]]
            /\ UNCHANGED source
       ELSE /\ pc' = [pc EXCEPT ![d] = [main |-> "checked", worker |-> "none"]]
            /\ source' = None
    /\ UNCHANGED <<sync_state, dest, config, client, last>>

\* run_daemon goes on: write_pid, the flags, and the worker thread is started
write_pid(d) ==
    /\ pc[d].main = "checked"
    /\ source' = Some(d)
    /\ config' = [config EXCEPT ![d] = [running |-> TRUE, _stop_requested |-> FALSE]]
    /\ pc' = [pc EXCEPT ![d] = [main |-> "running", worker |-> "loop"]]
    /\ UNCHANGED <<sync_state, dest, client, last>>

\* sync_worker at the head of its loop: the next cycle begins, or the loop ends
sync_worker_Loop(d) ==
    /\ pc[d].worker = "loop"
    /\ IF config[d].running /\ ~config[d]._stop_requested
       THEN /\ last.cycles[d] < MaxCycles
            /\ pc' = [pc EXCEPT ![d] = [main |-> pc[d].main, worker |-> "cycle"]]
            /\ last' = [last EXCEPT !.cycles = [last.cycles EXCEPT ![d] = last.cycles[d] + 1]]
       ELSE /\ pc' = [pc EXCEPT ![d] = [main |-> pc[d].main, worker |-> "ended"]]
            /\ UNCHANGED last
    /\ UNCHANGED <<source, sync_state, dest, config, client>>

\* sync_calendars returns, and the worker waits for the interval
sync_worker_CycleEnds(d) ==
    /\ pc[d].worker = "cycle"
    /\ pc' = [pc EXCEPT ![d] = [main |-> pc[d].main, worker |-> "wait"]]
    /\ UNCHANGED <<source, sync_state, dest, config, client, last>>

\* the wait ends: the interval is over, or a flag has stopped it
sync_worker_Wakes(d) ==
    /\ pc[d].worker = "wait"
    /\ pc' = [pc EXCEPT ![d] = [main |-> pc[d].main, worker |-> "loop"]]
    /\ UNCHANGED <<source, sync_state, dest, config, client, last>>

\* SIGTERM or SIGINT arrives
signal_handler(d) ==
    /\ pc[d].main = "running"
    /\ ~config[d]._stop_requested
    /\ config' = [config EXCEPT ![d] = [running |-> FALSE, _stop_requested |-> TRUE]]
    /\ UNCHANGED <<source, sync_state, dest, client, pc, last>>

\* the main loop of run_daemon sees the flag: the worker is joined for at most
\* five seconds, the PID file is removed, and run_daemon returns
run_daemon_Stops(d) ==
    /\ pc[d].main = "running"
    /\ config[d]._stop_requested
    /\ config' = [config EXCEPT ![d] = [running |-> FALSE, _stop_requested |-> TRUE]]
    /\ source' = None
    /\ pc' = [pc EXCEPT ![d] = [main |-> "returned", worker |-> pc[d].worker]]
    /\ UNCHANGED <<sync_state, dest, client, last>>

\* the stop command: every daemon process is terminated, then killed, and the
\* PID file is removed
kill_all_daemon_processes ==
    /\ \E d \in Daemons : Alive(d) /\ pc[d].main # "checked"
    /\ pc' = [d \in Daemons |->
                IF Alive(d) THEN [main |-> "dead", worker |-> "dead"] ELSE pc[d]]
    /\ source' = None
    /\ UNCHANGED <<sync_state, dest, config, client, last>>

NextDaemon ==
    \/ \E d \in Daemons :
         \/ is_running(d)
         \/ write_pid(d)
         \/ sync_worker_Loop(d)
         \/ sync_worker_CycleEnds(d)
         \/ sync_worker_Wakes(d)
         \/ signal_handler(d)
         \/ run_daemon_Stops(d)
    \/ kill_all_daemon_processes

SpecDaemon == InitDaemon /\ [][NextDaemon]_vars

\* the daemons whose worker is inside sync_calendars
InCycle == { d \in Daemons : pc[d].worker = "cycle" }

\* C36: at most one sync cycle is executing at any time against the sync
\* state file and the destination: no second daemon runs a cycle while a
\* cycle of a running or stopping daemon is in progress
C36_SingleFlight ==
    last.op = "run_daemon" => Cardinality(InCycle) <= 1

\* a daemon that was told to stop has returned from run_daemon with its cycle
\* still in progress
C36_StoppingReached ==
    /\ last.op = "run_daemon"
    /\ \E d \in Daemons : pc[d].main = "returned" /\ pc[d].worker = "cycle"

-----------------------------------------------------------------------------
(* C37: the lists passed to sync_to_icloud *)

\* the stable keys of a list of events
KeysIn(events) == { events[i].stable_key : i \in 1..Len(events) }

\* how many events of the destination carry the marker of a key
MarkerCount(d, k) == SumCounts(d, { t \in DestTypes : t.marker = k })

\* C37: in a cycle that reaches the loops of sync_to_icloud, the keys of the
\* added, the modified and the recovery events are pairwise disjoint, create
\* is called at most once for each stable key, and a destination that held at
\* most one event for each marker holds at most one after the cycle
C37_NoDoubleCreate ==
    Reconciled =>
      /\ KeysIn(last.changes.added) \cap KeysIn(last.changes.modified) = {}
      /\ KeysIn(last.changes.added) \cap KeysIn(last.detection.events) = {}
      /\ KeysIn(last.changes.modified) \cap KeysIn(last.detection.events) = {}
      /\ \A k \in Keys : Cardinality(SyncCallsOf("create_event", k)) <= 1
      /\ (\A k \in Keys : MarkerCount(last.pre_dest, k) <= 1)
           => \A k \in Keys : MarkerCount(dest, k) <= 1

\* an event is modified at the source and missing at the destination
C37_ModifiedAndMissing ==
    /\ Reconciled
    /\ KeysIn(last.changes.modified) \cap KeysIn(last.detection.events) # {}

-----------------------------------------------------------------------------
(* C38: force_resync and the result of the clear *)

\* C38: force_resync calls create only after a clear that succeeded; after a
\* clear that failed it calls no create and leaves the sync state as it was
C38_RecreateOnlyAfterClear ==
    ForceResyncRan =>
      \A j \in CallsOf("clear_all_events") :
        last.calls[j].ret = "false"
          => /\ \A i \in CallsOf("create_event") : i < j
             /\ sync_state = last.synced

\* the clear failed and force_resync went on
C38_ClearFailedReached ==
    /\ ForceResyncRan
    /\ client = ICloudIntegrationMethods
    /\ \E j \in CallsOf("clear_all_events") : last.calls[j].ret = "false"

-----------------------------------------------------------------------------
(* The description on its way through the destination: create_event escapes *)
(* and shortens it, Calendar keeps it, get_existing_events lists it and     *)
(* extract_sync_keys_from_icloud_events reads the markers of the listing.   *)
(* A text is the sequence of its characters.                                *)

\* the lengths tried are the multiples of Step, and one more
Step == 25

\* most steps of text before the marker, of stable key, and of text after it
MaxPre == 9
MaxKeyLen == 8
MaxPost == 1

max_desc_length == 200
EarlyPosition == 50
CheckedLength == 200

Chars(n, c) == [i \in 1..n |-> c]

\* text[:n]
Sliced(text, n) == SubSeq(text, 1, IF n < Len(text) THEN n ELSE Len(text))

MarkerPrefix == <<"[", "S", "Y", "N", "C", "_", "U", "I", "D", ":">>

\* f"[SYNC_UID:{stable_key}]"
MarkerText(stable_key) == MarkerPrefix \o stable_key \o <<"]">>

\* what the text around the marker is made of
Fillers == {"x", "\"", "|"}

\* a description that carries the marker after a blank, as CalSync builds it
Around(pre, stable_key, post, c) == IF pre = 0 THEN MarkerText(stable_key) ELSE Chars(pre - 1, c) \o <<" ">> \o MarkerText(stable_key) \o Chars(post, c)

\* the event dicts create_event is called with
CreatedEvents ==
    { [stable_key |-> Chars(Step * l, "k"),
       description |-> Around(pre, Chars(Step * l, "k"), Step * post, c)] :
        pre \in {0} \cup { Step * n + o : n \in 1..MaxPre, o \in 0..1 },
        l \in 1..MaxKeyLen, post \in 0..MaxPost, c \in Fillers }

\* a backslash before every backslash and every double quote
RECURSIVE _escape_string(_)
_escape_string(text) ==
    IF Len(text) = 0 THEN << >>
    ELSE IF Len(text) = 1
    THEN IF text[1] \in {"\\", "\""} THEN <<"\\", text[1]>> ELSE text
    ELSE _escape_string(SubSeq(text, 1, Len(text) \div 2))
           \o _escape_string(SubSeq(text, Len(text) \div 2 + 1, Len(text)))

\* the pattern \[SYNC_UID:[^\]]+\] matches from character i on
PrefixAt(text, i) == i + 9 <= Len(text) /\ \A j \in 1..10 : text[i + j - 1] = MarkerPrefix[j]

ClosingAfter(text, i) == { j \in (i + 11)..Len(text) : text[j] = "]" }

MatchesAt(text, i) ==
    /\ PrefixAt(text, i)
    /\ i + 10 <= Len(text)
    /\ text[i + 10] # "]"
    /\ ClosingAfter(text, i) # {}

Least(S) == CHOOSE i \in S : \A k \in S : i <= k

\* re.search from character `from` on: the first match, or nothing
re_search(text, from) ==
    LET starts == { i \in from..Len(text) : MatchesAt(text, i) }
    IN  IF starts = {} THEN None
        ELSE Some([start |-> Least(starts),
                   end |-> Least(ClosingAfter(text, Least(starts)))])

\* the description create_event writes into its script
ShortenedDescription(description) ==
    IF Len(description) > max_desc_length
    THEN LET sync_marker_match == re_search(description, 1)
         IN  IF sync_marker_match # None
             THEN LET m == sync_marker_match[1]
                      sync_marker == SubSeq(description, m.start, m.end)
                      sync_position == m.start - 1
                      sync_length == Len(sync_marker)
                      available_space == max_desc_length - sync_length
                  IN  IF sync_position <= EarlyPosition
                      THEN Sliced(description, max_desc_length)
                      ELSE IF available_space > 0
                      THEN Sliced(description, available_space) \o sync_marker
                      ELSE sync_marker
             ELSE Sliced(description, max_desc_length)
    ELSE description

\* the backslashes right before character i
RECURSIVE BackslashesBefore(_, _)
BackslashesBefore(text, i) ==
    IF i = 1 \/ text[i - 1] # "\\" THEN 0 ELSE 1 + BackslashesBefore(text, i - 1)

\* character i of a script string begins an escape
BeginsEscape(text, i) == text[i] = "\\" /\ BackslashesBefore(text, i) % 2 = 0

RECURSIVE Unescaped(_, _, _)
Unescaped(text, lo, hi) ==
    IF lo > hi THEN << >>
    ELSE IF lo = hi THEN (IF BeginsEscape(text, lo) THEN << >> ELSE <<text[lo]>>)
    ELSE Unescaped(text, lo, (lo + hi) \div 2) \o Unescaped(text, (lo + hi) \div 2 + 1, hi)

\* the text Calendar keeps for description:"{description}"; a last character
\* that begins an escape takes the closing quote, and the script does not
\* compile
ScriptString(text) ==
    IF text # << >> /\ BeginsEscape(text, Len(text)) THEN None
    ELSE Some(Unescaped(text, 1, Len(text)))

RECURSIVE LeftStripped(_)
LeftStripped(text) ==
    IF text # << >> /\ Head(text) = " " THEN LeftStripped(Tail(text)) ELSE text

RECURSIVE RightStripped(_)
RightStripped(text) ==
    IF text # << >> /\ text[Len(text)] = " "
    THEN RightStripped(SubSeq(text, 1, Len(text) - 1)) ELSE text

\* summary | description | location | start | end of one listed event
EventInfo(description) == <<"s", "|">> \o description \o <<"|", "l", "|", "a", "|", "b">>

\* parts[1].strip() of line.split('|')
ListedDescription(line) ==
    LET bars == { i \in 1..Len(line) : line[i] = "|" }
        first == Least(bars)
        second == Least(bars \ {first})
    IN  RightStripped(LeftStripped(SubSeq(line, first + 1, second - 1)))

\* re.findall(r'\[SYNC_UID:([^\]]+)\]', text) from character `from` on
RECURSIVE FoundKeys(_, _)
FoundKeys(text, from) ==
    LET found == re_search(text, from)
    IN  IF found = None THEN {}
        ELSE {SubSeq(text, found[1].start + 10, found[1].end - 1)}
               \cup FoundKeys(text, found[1].end + 1)

\* extract_sync_keys_from_icloud_events on the listing of one event
SyncKeysOf(description) ==
    IF description # << >>
    THEN FoundKeys(Sliced(description, CheckedLength), 1)
    ELSE {}

InitStore ==
    /\ source \in CreatedEvents
    /\ sync_state = EmptyState
    /\ dest = None
    /\ config = [verify_threshold |-> 90, override_icloud_deletions |-> TRUE,
                 skip_sync_on_too_many_missing |-> TRUE]
    /\ client = ICloudIntegrationMethods
    /\ pc = "idle"
    /\ last = [op |-> "none", ret |-> FALSE, sync_keys |-> {}]

\* create_event: the script is built and run, Calendar stores the event
CreateEvent ==
    /\ pc = "idle"
    /\ \E stored \in {ScriptString(ShortenedDescription(_escape_string(source.description)))} :
         /\ dest' = stored
         /\ pc' = IF stored = None THEN "failed" ELSE "created"
         /\ last' = [op |-> "create_event", ret |-> stored # None, sync_keys |-> {}]
    /\ UNCHANGED <<source, sync_state, config, client>>

\* get_existing_events, then extract_sync_keys_from_icloud_events
ListAndExtract ==
    /\ pc = "created"
    /\ pc' = "listed"
    /\ last' = [op |-> "extract_sync_keys_from_icloud_events", ret |-> TRUE,
                sync_keys |-> SyncKeysOf(ListedDescription(EventInfo(dest[1])))]
    /\ UNCHANGED <<source, sync_state, dest, config, client>>

SpecStore == InitStore /\ [][CreateEvent \/ ListAndExtract]_vars

\* the markers of this event's stable key that lie whole in the first
\* characters of the stored description
WholeMarkers ==
    { i \in 1..Len(dest[1]) :
        /\ i + Len(MarkerText(source.stable_key)) - 1 <= Len(dest[1])
        /\ i + Len(MarkerText(source.stable_key)) - 1 <= max_desc_length
        /\ SubSeq(dest[1], i, i + Len(MarkerText(source.stable_key)) - 1)
             = MarkerText(source.stable_key) }

\* C39: for every event create_event stored, the marker of its stable key
\* lies whole inside the first 200 characters of the stored description, and
\* the keys extracted from the listing include the stable key
C39_MarkerRoundTrip ==
    pc = "listed" => /\ WholeMarkers # {}
                     /\ source.stable_key \in last.sync_keys

\* a long description was shortened and its marker came back
C39_ShortenedReached ==
    /\ pc = "listed"
    /\ Len(source.description) > max_desc_length
    /\ source.stable_key \in last.sync_keys

-----------------------------------------------------------------------------
(* C40: the capability check against the class that is shipped *)

\* C40: the shipped ICloudIntegration has every operation sync_to_icloud
\* requires, so a cycle that detected a change passes the capability check
\* and reaches the loops that create and delete
C40_ShippedClientSuffices ==
    (SyncToICloudCalled /\ client = ICloudIntegrationMethods)
      => /\ required_methods \subseteq client
         /\ last.path # "missing_methods"

\* a cycle with the shipped client found an added event
C40_ChangeDetectedReached ==
    /\ SyncToICloudCalled
    /\ client = ICloudIntegrationMethods
    /\ last.changes.added # << >>

====
